---- MODULE Spec2Model ----
(***************************************************************************)
(* BillLens python-backend: the receipt parser (services/receipt_parser.py) *)
(* and its split suggestion.                                               *)
(*                                                                         *)
(* Text is a sequence of physical lines.  A line holds one printed amount  *)
(* and is the record [pre, sym, num, post]: the original-case characters   *)
(* before the amount, whether the rupee sign stands directly before the    *)
(* amount, the amount token as printed, and the characters after it.  The  *)
(* printed line is  pre (rupee-sign)? num post.  The regular expressions   *)
(* of the parser are modelled by what they match on such lines; what they  *)
(* match on each line of the vocabulary is kept in a table (..._on_line),  *)
(* and the extractors walk the lines of the text through these tables.     *)
(*                                                                         *)
(* Money is an integer number of thousandths of a rupee (Milli units), a   *)
(* per-unit price is an exact fraction [n, d] of such units.               *)
(***************************************************************************)
EXTENDS Integers, Sequences, FiniteSets, TLC

VARIABLES text, hint, currency, pc, result,
          total_arg, items_arg, member_ids, split,
          calls, locals, catalog,
          request, response, storage, received

vars == <<text, hint, currency, pc, result, total_arg, items_arg, member_ids, split,
          calls, locals, catalog, request, response, storage, received>>

(***************************************************************************)
(* Characters and strings                                                  *)
(***************************************************************************)
Ch(s, i) == SubSeq(s, i, i)

UPPER == "ABCDEFGHIJKLMNOPQRSTUVWXYZ"
LOWER == "abcdefghijklmnopqrstuvwxyz"
DIGITS == "0123456789"

\* 1-based position of character c in string s, 0 when absent
IndexIn(c, s) ==
    IF \E i \in 1..Len(s) : Ch(s, i) = c
    THEN CHOOSE i \in 1..Len(s) : Ch(s, i) = c
    ELSE 0

IsDigit(c) == IndexIn(c, DIGITS) > 0
IsUpper(c) == IndexIn(c, UPPER) > 0
IsLower(c) == IndexIn(c, LOWER) > 0
IsLetter(c) == IsUpper(c) \/ IsLower(c)
IsSpace(c) == c = " "

lower_ch(c) == IF IsUpper(c) THEN Ch(LOWER, IndexIn(c, UPPER)) ELSE c
upper_ch(c) == IF IsLower(c) THEN Ch(UPPER, IndexIn(c, LOWER)) ELSE c

\* str.lower()
RECURSIVE lower(_)
lower(s) == IF s = "" THEN "" ELSE lower_ch(Ch(s, 1)) \o lower(Tail(s))

\* str.title(): a letter after a non-letter is upper-cased, any other lower-cased
RECURSIVE title_from(_, _)
title_from(s, prevLetter) ==
    IF s = "" THEN ""
    ELSE LET c == Ch(s, 1)
         IN  (IF prevLetter THEN lower_ch(c) ELSE upper_ch(c))
             \o title_from(Tail(s), IsLetter(c))

title(s) == title_from(s, FALSE)

\* str.strip() / rstrip over a set of characters
RECURSIVE rstrip(_, _)
rstrip(s, cs) ==
    IF s # "" /\ Ch(s, Len(s)) \in cs THEN rstrip(SubSeq(s, 1, Len(s) - 1), cs) ELSE s

RECURSIVE lstrip(_, _)
lstrip(s, cs) == IF s # "" /\ Ch(s, 1) \in cs THEN lstrip(Tail(s), cs) ELSE s

strip(s) == lstrip(rstrip(s, {" "}), {" "})

EndsWith(s, k) == Len(k) <= Len(s) /\ SubSeq(s, Len(s) - Len(k) + 1, Len(s)) = k

\* Python's  k in s
Contains(s, k) == \E i \in 1..(Len(s) - Len(k) + 1) : SubSeq(s, i, i + Len(k) - 1) = k

\* str.replace(c, '') for a one-character c
RECURSIVE remove_ch(_, _)
remove_ch(s, c) ==
    IF s = "" THEN ""
    ELSE (IF Ch(s, 1) = c THEN "" ELSE Ch(s, 1)) \o remove_ch(Tail(s), c)

\* re.sub(r'\s+', ' ', s): every run of spaces becomes one space
RECURSIVE collapse_spaces(_)
collapse_spaces(s) ==
    IF Len(s) < 2 THEN s
    ELSE IF Ch(s, 1) = " " /\ Ch(s, 2) = " " THEN collapse_spaces(Tail(s))
    ELSE Ch(s, 1) \o collapse_spaces(Tail(s))

(***************************************************************************)
(* Numbers                                                                 *)
(***************************************************************************)
RECURSIVE digits_value(_)
digits_value(s) ==
    IF s = "" THEN 0
    ELSE digits_value(SubSeq(s, 1, Len(s) - 1)) * 10 + (IndexIn(Ch(s, Len(s)), DIGITS) - 1)

\* float(s) for s made of digits and at most one '.': the value in Milli
\* units (thousandths), or the ValueError that float('') and float('.') raise.  Tokens carry
\* at most three decimals.
float(s) ==
    LET dot  == IndexIn(".", s)
        ip   == IF dot = 0 THEN s ELSE SubSeq(s, 1, dot - 1)
        fp   == IF dot = 0 THEN "" ELSE SubSeq(s, dot + 1, Len(s))
        fp3  == SubSeq(fp \o "000", 1, 3)
    IN  IF ip = "" /\ fp = ""
        THEN [exc |-> "ValueError", val |-> 0]
        ELSE [exc |-> "", val |-> digits_value(ip) * 1000 + digits_value(fp3)]

Abs(x) == IF x < 0 THEN -x ELSE x

\* a variant of round2 that cuts off after the second decimal
floor2(num, den) == (num \div (10 * den)) * 10

\* round(x, 2) of x Milli units num/den: the nearest hundredth, in Milli units
\* (an exact tie goes to the even hundredth)
round2(num, den) ==
    LET q == num \div (10 * den)
        r == num - q * 10 * den
    IN  IF 2 * r < 10 * den THEN q * 10
        ELSE IF 2 * r > 10 * den THEN (q + 1) * 10
        ELSE IF q % 2 = 0 THEN q * 10 ELSE (q + 1) * 10

RECURSIVE gcd(_, _)
gcd(a, b) == IF b = 0 THEN a ELSE gcd(b, a % b)

\* the fraction n/d in lowest terms
Frac(n, d) == LET g == gcd(n, d) IN IF g = 0 THEN [n |-> 0, d |-> 1] ELSE [n |-> n \div g, d |-> d \div g]

None == <<>>
Some(v) == <<v>>

(***************************************************************************)
(* Lines and the groups the regular expressions capture                    *)
(***************************************************************************)
Line(pre, sym, num, post) == [pre |-> pre, sym |-> sym, num |-> num, post |-> post]

\* the rupee sign U+20B9, written as one ASCII character
RUPEE == "$"

\* the printed line
line_text(l) == l.pre \o (IF l.sym THEN RUPEE ELSE "") \o l.num \o l.post

DigitSet == {Ch(DIGITS, i) : i \in 1..Len(DIGITS)}

\* length of the longest prefix of s made of characters of cs
RECURSIVE prefix_len(_, _)
prefix_len(s, cs) == IF s # "" /\ Ch(s, 1) \in cs THEN 1 + prefix_len(Tail(s), cs) ELSE 0

\* what the group ([\d,]+\.?\d*) captures at the start of s ("" = no match)
amount_group(s) ==
    LET a   == prefix_len(s, DigitSet \cup {","})
        dot == a < Len(s) /\ Ch(s, a + 1) = "."
        b   == IF dot THEN 1 + prefix_len(SubSeq(s, a + 2, Len(s)), DigitSet) ELSE 0
    IN  IF a = 0 THEN "" ELSE SubSeq(s, 1, a + b)

\* what the group ([\d,]+\.[\d]{2}) captures at the start of s ("" = no match)
decimal_group(s) ==
    LET a   == prefix_len(s, DigitSet \cup {","})
        dot == a < Len(s) /\ Ch(s, a + 1) = "."
        b   == IF dot THEN prefix_len(SubSeq(s, a + 2, Len(s)), DigitSet) ELSE 0
    IN  IF a > 0 /\ dot /\ b >= 2 THEN SubSeq(s, 1, a + 3) ELSE ""

\* the characters of a label regex's gap, [\s:] or \s
LabelGap == {" ", ":"}
SpaceGap == {" "}

\* A label regex is  (?:phrase|...) gap -? rupee \s*([\d,]+\.?\d*) : a phrase,
\* gap characters (at least gap_min of them), a minus sign where the regex
\* allows one, the rupee sign (optional or required) and the amount.  With
\* line_start the phrase stands at (?:^|\n)\s*.  label_capture is what the
\* regex captures on line l of the lower-cased text ("" = no match).
label_regex(phrases, rupee, line_start, gap, gap_min, minus) ==
    [phrases |-> phrases, rupee |-> rupee, line_start |-> line_start,
     gap |-> gap, gap_min |-> gap_min, minus |-> minus]

label_match_on(pre, sym, num, p) ==
    LET low == lower(pre)
        key == rstrip(low, p.gap)
    IN  /\ p.rupee = "required" => sym
        /\ Len(low) - Len(key) >= p.gap_min
        /\ \E k \in p.phrases :
              IF p.line_start THEN lstrip(key, {" "}) = k ELSE EndsWith(key, k)
        /\ amount_group(num) # ""

label_capture(l, p) ==
    LET q       == IF l.sym THEN l.pre ELSE rstrip(l.pre, {" "})
        signed  == p.minus /\ q # "" /\ Ch(q, Len(q)) = "-"
    IN  IF \/ label_match_on(l.pre, l.sym, l.num, p)
           \/ signed /\ label_match_on(SubSeq(q, 1, Len(q) - 1), l.sym, l.num, p)
        THEN amount_group(l.num)
        ELSE ""

(***************************************************************************)
(* The receipt lines the parser is run on ($ stands for the rupee sign)    *)
(***************************************************************************)
MaxLines == 3

\* the lines of the receipts the parser is run on
ReceiptLines ==
    { Line("Grand Total: ", TRUE, "450.00", ""),    \* Grand Total: $450.00
      Line("Delivery Fee: ", TRUE, ",", ""),        \* Delivery Fee: $,
      Line("Naan ", TRUE, ",", ""),                 \* Naan $,
      Line("Bill Total: ", FALSE, "1,299.00", ""),  \* Bill Total: 1,299.00
      Line("Amount Due: ", TRUE, "5", ""),          \* Amount Due: $5
      Line("Paid ", TRUE, "300", ""),               \* Paid $300
      Line("Total: ", TRUE, "300", ""),             \* Total: $300
      Line("Delivery Fee: ", TRUE, "40", ""),       \* Delivery Fee: $40
      Line("Platform Fee: ", TRUE, "10", ""),       \* Platform Fee: $10
      Line("Tax: ", FALSE, "20", ""),               \* Tax: 20
      Line("Discount: ", TRUE, "50", ""),           \* Discount: $50
      Line("2x Masala Dosa ", TRUE, "180", ""),     \* 2x Masala Dosa $180
      Line("1x Filter Coffee ", TRUE, "40", ""),    \* 1x Filter Coffee $40
      Line("Paneer Tikka ", TRUE, "250.00", ""),    \* Paneer Tikka $250.00
      Line("PANEER TIKKA ", TRUE, "250.004", "") }  \* PANEER TIKKA $250.004

\* lines with and without a merchant: known merchants, blank lines, a short
\* and a long line that name nothing the parser knows
MerchantLines ==
    { Line("", FALSE, "", ""),
      Line("  ", FALSE, "", " "),
      Line("Promo applied", FALSE, "", ""),
      Line(" Cafe Mocha ", FALSE, "", ""),
      Line("Zomato order", FALSE, "", ""),
      Line("Swiggy via PhonePe", FALSE, "", ""),
      Line("Thank you for ordering with us, please visit again", FALSE, "", ""),
      Line("Paid ", TRUE, "300", "") }

\* item lines: quantity prefixes (0 among them), prices at and beyond the
\* limits, the separators of the five item patterns, and a summary line
ItemLines ==
    { Line("0x Water ", TRUE, "20", ""),            \* 0x Water $20
      Line("3x Idli ", TRUE, "100", ""),            \* 3x Idli $100
      Line(" 2 x Roti  ", TRUE, "30.50", ""),       \*  2 x Roti  $30.50
      Line("Paneer Tikka - ", TRUE, "250", ""),     \* Paneer Tikka - $250
      Line("Naan (", TRUE, "30", ")"),              \* Naan ($30)
      Line("Ab ", TRUE, "10000", ""),               \* Ab $10000
      Line("Roti ", TRUE, "0", ""),                 \* Roti $0
      Line("Thali ", TRUE, "10000", ""),            \* Thali $10000
      Line("Thali ", TRUE, "9,999.99", " only"),    \* Thali $9,999.99 only
      Line("2x Dosa ", TRUE, "90", " incl tax"),    \* 2x Dosa $90 incl tax
      Line("Veg  Biryani - ", TRUE, "220", ""),     \* Veg  Biryani - $220
      Line("A ", TRUE, "5", ""),                    \* A $5
      Line("Total: ", TRUE, "300", "") }            \* Total: $300

\* lines with a clock time: 12-hour and 24-hour forms, the "time" label,
\* hours and minutes beyond the clock, and a line without a time; lines with
\* a date: numeric with years of 2, 3 and 4 digits, and with a month's name
TimeLines ==
    { Line("Time: ", FALSE, "25", ":99"),           \* Time: 25:99
      Line("5-1-24 at ", FALSE, "7", ":30 PM"),     \* 5-1-24 at 7:30 PM
      Line("Ordered ", FALSE, "12", ":05 am"),      \* Ordered 12:05 am
      Line("Closes ", FALSE, "23", ":59"),          \* Closes 23:59
      Line("Open ", FALSE, "24", ":00"),            \* Open 24:00
      Line("At ", FALSE, "9", ":75 pm"),            \* At 9:75 pm
      Line("Bill No ", FALSE, "123", ":45"),        \* Bill No 123:45
      Line("Table ", FALSE, "4", ""),               \* Table 4
      Line("Date: ", FALSE, "15", "/12/2024"),      \* Date: 15/12/2024
      Line("Due ", FALSE, "1", "/02-2025"),         \* Due 1/02-2025
      Line("Ref ", FALSE, "1", "/2/345"),           \* Ref 1/2/345
      Line("", FALSE, "15", " Dec 2024"),           \* 15 Dec 2024
      Line("On ", FALSE, "3", " mar 21"),           \* On 3 mar 21
      Line("Noon ", FALSE, "12", ":30"),            \* Noon 12:30
      Line("Lunch ", FALSE, "12", ":15 PM"),        \* Lunch 12:15 PM
      Line("Till ", FALSE, "13", ":05 pm"),         \* Till 13:05 pm
      Line("Amount Paid ", TRUE, "500", "") }       \* Amount Paid $500

\* labelled tax, delivery, platform and discount lines: for each field
\* mentions in its range and one outside it, under labels that different
\* patterns of its extractor match
FeeLines ==
    { Line("GST ", TRUE, "18", ""),                 \* GST $18
      Line("Tax: ", FALSE, "120", ""),              \* Tax: 120
      Line("Tax Amount: ", TRUE, "6000", ""),       \* Tax Amount: $6000
      Line("Delivery ", TRUE, "25", ""),            \* Delivery $25
      Line("Delivery Fee: ", TRUE, "40", ""),       \* Delivery Fee: $40
      Line("Delivery Charges ", TRUE, "600", ""),   \* Delivery Charges $600
      Line("Platform Fee: ", TRUE, "15", ""),       \* Platform Fee: $15
      Line("Service Charges: ", FALSE, "0", ""),    \* Service Charges: 0
      Line("Convenience Fee ", TRUE, "150", ""),    \* Convenience Fee $150
      Line("Offer: -", FALSE, "20", ""),            \* Offer: -20
      Line("Discount -", TRUE, "50", ""),           \* Discount -$50
      Line("Discount: ", TRUE, "0", "") }           \* Discount: $0

\* every line the tables below are computed for
LineVocab == ReceiptLines \cup MerchantLines \cup ItemLines \cup TimeLines \cup FeeLines

RECURSIVE SeqsUpTo(_, _)
SeqsUpTo(S, n) ==
    IF n = 0 THEN {<<>>}
    ELSE LET shorter == SeqsUpTo(S, n - 1)
         IN  shorter \cup {Append(q, x) : q \in shorter, x \in S}

Texts == SeqsUpTo(ReceiptLines, MaxLines)

\* index of the first TRUE at or after i in the sequence bs, 0 when none
RECURSIVE first_line(_, _)
first_line(bs, i) ==
    IF i > Len(bs) THEN 0 ELSE IF bs[i] THEN i ELSE first_line(bs, i + 1)

\* re.search: the first element at or after i of the sequence q of matches
\* (<<>> where there is none) that is a match, or <<>>
RECURSIVE first_match(_, _)
first_match(q, i) ==
    IF i > Len(q) THEN <<>> ELSE IF q[i] # <<>> THEN q[i] ELSE first_match(q, i + 1)

\* the tokens the amount groups capture on the lines of the vocabulary, and
\* float(match.group(1).replace(',', '')) of each: [exc, val]
Captures == {amount_group(l.num) : l \in LineVocab} \cup {decimal_group(l.num) : l \in LineVocab}

float_of_capture == [s \in Captures |-> float(remove_ch(s, ","))]

\* what the label regexes of a list capture on line l, one entry per regex
captures_on(l, regexes) == [k \in 1..Len(regexes) |-> label_capture(l, regexes[k])]

(***************************************************************************)
(* _extract_amount                                                         *)
(***************************************************************************)
\* the rule table: (priority, regex, context).  A rule's regex is
\*   (?:phrase|...)[\s:]* rupee \s*([\d,]+\.?\d*)
\* with the rupee sign optional or required; rule 5 anchors  total  at the
\* start of a line, rule 6 is the bare rupee sign.
patterns ==
    << [priority |-> 10, context |-> "Grand Total",
        regex |-> label_regex({"grand total", "final amount", "amount paid", "total payable",
                               "pay amount", "amount to pay", "net amount"},
                              "optional", FALSE, LabelGap, 0, FALSE)],
       [priority |-> 9, context |-> "Restaurant Bill",
        regex |-> label_regex({"bill total", "total bill", "final bill", "amount payable"},
                              "optional", FALSE, LabelGap, 0, FALSE)],
       [priority |-> 9, context |-> "Utility Bill",
        regex |-> label_regex({"total due", "amount due", "bill amount", "outstanding",
                               "balance due"},
                              "optional", FALSE, LabelGap, 0, FALSE)],
       [priority |-> 8, context |-> "UPI Payment",
        regex |-> label_regex({"amount", "paid", "transaction amount", "payment amount"},
                              "required", FALSE, LabelGap, 0, FALSE)],
       [priority |-> 7, context |-> "Total",
        regex |-> label_regex({"total"}, "optional", TRUE, LabelGap, 0, FALSE)],
       [priority |-> 3, context |-> "Currency Symbol",
        regex |-> label_regex({""}, "required", FALSE, {}, 0, FALSE)] >>

\* what each rule captures on each line of the vocabulary ("" = no match)
amount_on_line == [l \in LineVocab |-> captures_on(l, [r \in 1..Len(patterns) |-> patterns[r].regex])]

\* re.finditer(pattern, normalized) for rule r: its matches, in text order
rule_matches(r, t) ==
    LET hit(l) == amount_on_line[l][r] # ""
        hits   == SelectSeq(t, hit)
    IN  [i \in 1..Len(hits) |->
            [group1 |-> amount_on_line[hits[i]][r],
             priority |-> patterns[r].priority, context |-> patterns[r].context]]

\* all matches in the order the two loops of lines 151-153 visit them
RECURSIVE amount_matches(_, _)
amount_matches(t, r) ==
    IF r > Len(patterns) THEN <<>>
    ELSE rule_matches(r, t) \o amount_matches(t, r + 1)

MIN_TOTAL == 10
MAX_TOTAL == 100000

\* a variant of AmountExcept: a handler that catches nothing
AmountExcept_none == {}

\* the exception classes the handler of lines 169-170 catches
AmountExcept == {"ValueError"}

\* a variant of amount_key that remembers the amount as parsed, not rounded
amount_key_exact(amount) == amount

\* line 161: the key an amount is remembered under
amount_key(amount) == round2(amount, 1)

\* a variant of total_in_range that accepts every positive amount
total_is_positive(amount) == amount > 0

\* line 159: the plausible range of a total, amount in thousandths
total_in_range(amount) == MIN_TOTAL * 1000 <= amount /\ amount <= MAX_TOTAL * 1000

\* lines 153-170, one match at a time: st = [exc, candidates, seen_amounts]
RECURSIVE collect_amounts(_, _, _)
collect_amounts(ms, i, st) ==
    IF i > Len(ms) \/ st.exc # "" THEN st
    ELSE LET f      == float_of_capture[ms[i].group1]
             amount == f.val
         IN  IF f.exc # ""
             THEN collect_amounts(ms, i + 1,
                     IF f.exc \in AmountExcept THEN st ELSE [st EXCEPT !.exc = f.exc])
             ELSE IF total_in_range(amount) /\ amount_key(amount) \notin st.seen_amounts
             THEN collect_amounts(ms, i + 1,
                     [st EXCEPT !.seen_amounts = @ \cup {amount_key(amount)},
                                !.candidates = Append(@, [amount |-> amount,
                                                           priority |-> ms[i].priority,
                                                           context |-> ms[i].context])])
             ELSE collect_amounts(ms, i + 1, st)

amount_candidates(t) ==
    collect_amounts(amount_matches(t, 1), 1,
                    [exc |-> "", candidates |-> <<>>, seen_amounts |-> {}])

\* a variant of sorts_before that orders by amount alone
sorts_before_amount_only(a, b) == a.amount > b.amount

\* the sort key of line 176: a sorts before b
sorts_before(a, b) ==
    \/ a.priority > b.priority
    \/ a.priority = b.priority /\ a.amount > b.amount

\* a variant of first_sorted that takes the candidate appended last
last_candidate(cands) == cands[Len(cands)]

\* candidates[0] after the stable sort of line 176
first_sorted(cands) ==
    LET i == CHOOSE i \in 1..Len(cands) :
                 \A j \in 1..Len(cands) :
                     \/ sorts_before(cands[i], cands[j])
                     \/ (~sorts_before(cands[j], cands[i]) /\ i <= j)
    IN  cands[i]

\* lines 172-179 after the loops have left st: [exc, val]
amount_of(st) ==
    IF st.exc # "" THEN [exc |-> st.exc, val |-> 0]
    ELSE IF st.candidates = <<>> THEN [exc |-> "", val |-> 0]
    ELSE [exc |-> "", val |-> first_sorted(st.candidates).amount]

\* _extract_amount(normalized): [exc, val]
extract_amount(t) == amount_of(amount_candidates(t))

(***************************************************************************)
(* _extract_items                                                          *)
(***************************************************************************)
summary_keywords ==
    {"subtotal", "total", "tax", "delivery", "discount", "grand",
     "amount", "paid", "gst", "vat", "cgst", "sgst", "igst",
     "platform", "convenience", "service", "fee", "charges",
     "offer", "promo", "savings", "you saved", "packing",
     "tip", "service charge", "bill total", "final amount"}

has_summary_keyword(s) == \E keyword \in summary_keywords : Contains(s, keyword)

\* the five shapes of item_patterns: what stands between the name group and
\* the rupee sign, the least number of spaces before it, and the amount group
item_patterns ==
    << [has_qty |-> TRUE,  between |-> "",  gap_min |-> 0, decimal |-> FALSE],
       [has_qty |-> FALSE, between |-> "",  gap_min |-> 1, decimal |-> FALSE],
       [has_qty |-> FALSE, between |-> "-", gap_min |-> 0, decimal |-> FALSE],
       [has_qty |-> FALSE, between |-> "(", gap_min |-> 0, decimal |-> FALSE],
       [has_qty |-> FALSE, between |-> "",  gap_min |-> 0, decimal |-> TRUE] >>

\* the lazy group ([A-Z][^rupee\n]{2,50}?) under re.IGNORECASE, followed by
\* \s* (at least gap_min spaces) up to position D of pre: the leftmost letter
\* from which 3 to 51 characters reach the last non-space character before D
name_group(pre, D, gap_min) ==
    LET Q      == Len(rstrip(SubSeq(pre, 1, D), {" "}))
        endOf(i) == IF i + 2 > Q THEN i + 2 ELSE Q
        ok(i)  == /\ IsLetter(Ch(pre, i))
                  /\ endOf(i) <= D - gap_min
                  /\ endOf(i) <= i + 50
        starts == {i \in 1..D : ok(i)}
    IN  IF starts = {} THEN ""
        ELSE LET i == CHOOSE i \in starts : \A j \in starts : i <= j
             IN  SubSeq(pre, i, endOf(i))

\* (\d+)\s*x\s* : the leftmost run of digits followed by spaces and an x;
\* [first digit, last digit, position of x], or <<>> when there is none
qty_prefix(pre) ==
    LET runEnd(i) == i + prefix_len(SubSeq(pre, i, Len(pre)), DigitSet) - 1
        xAt(i)    == runEnd(i) + prefix_len(SubSeq(pre, runEnd(i) + 1, Len(pre)), {" "}) + 1
        ok(i)     == /\ IsDigit(Ch(pre, i))
                     /\ xAt(i) <= Len(pre)
                     /\ lower_ch(Ch(pre, xAt(i))) = "x"
        starts    == {i \in 1..Len(pre) : ok(i)}
    IN  IF starts = {} THEN <<>>
        ELSE LET i == CHOOSE i \in starts : \A j \in starts : i <= j
             IN  <<i, runEnd(i), xAt(i)>>

\* re.finditer(pattern, line_stripped, re.IGNORECASE) for one item pattern on
\* one stripped line, and lines 279-286: the groups of its match, or <<>> (a
\* line holds one amount, so a pattern matches a line at most once)
item_match(p, l) ==
    LET pre   == l.pre
        R     == Len(rstrip(pre, {" "}))
        price == IF p.decimal THEN decimal_group(l.num) ELSE amount_group(l.num)
        after == lstrip(SubSeq(l.num, Len(price) + 1, Len(l.num)) \o l.post, {" "})
        q     == qty_prefix(pre)
        D     == IF p.between = "" THEN Len(pre) ELSE R - 1
        name  == IF p.has_qty
                 THEN (IF q = <<>> THEN "" ELSE SubSeq(pre, q[3] + 1, Len(pre)))
                 ELSE name_group(pre, D, p.gap_min)
    IN  IF /\ l.sym
           /\ price # ""
           /\ name # ""
           /\ p.between # "" => (R >= 1 /\ Ch(pre, R) = p.between)
           /\ p.between = "(" => (after # "" /\ Ch(after, 1) = ")")
        THEN << [qty_str   |-> IF p.has_qty THEN SubSeq(pre, q[1], q[2]) ELSE "1",
                 name      |-> strip(name),
                 price_str |-> price] >>
        ELSE <<>>

MAX_ITEM_PRICE == 10000
MIN_NAME_LEN == 2
MAX_NAME_LEN == 50
MIN_LINE_LEN == 5

\* lines 288-299 for the match m: the match with its name cleaned and
\* lower-cased, or <<>> when the name is rejected
clean_name(m) ==
    LET name == rstrip(collapse_spaces(m.name), {"-", " "})
    IN  IF has_summary_keyword(lower(name)) THEN <<>>
        ELSE IF Len(name) < MIN_NAME_LEN \/ Len(name) > MAX_NAME_LEN THEN <<>>
        ELSE << [qty_str |-> m.qty_str, name |-> name, name_lower |-> lower(name),
                 price_str |-> m.price_str] >>

\* line.strip() of a line
stripped(l) == [l EXCEPT !.pre = lstrip(@, {" "}), !.post = rstrip(@, {" "})]

\* a variant of items_on that skips no line
items_on_every_line(l) ==
    [k \in 1..Len(item_patterns) |->
        LET ms == item_match(item_patterns[k], stripped(l))
        IN  IF ms = <<>> THEN <<>> ELSE clean_name(ms[1])]

\* lines 264-299 for one line: <<>> when the line is skipped, else for every
\* pattern its match with a cleaned name (<<>> when there is none)
items_on(l) ==
    LET s == stripped(l)
    IN  IF Len(line_text(s)) < MIN_LINE_LEN \/ has_summary_keyword(lower(line_text(s)))
        THEN <<>>
        ELSE [k \in 1..Len(item_patterns) |->
                 LET ms == item_match(item_patterns[k], s)
                 IN  IF ms = <<>> THEN <<>> ELSE clean_name(ms[1])]

\* the same for each line of the vocabulary
items_on_line == [l \in LineVocab |-> items_on(l)]

\* the exception classes the handler of lines 323-324 catches
ItemsExcept == {"ValueError", "IndexError"}

\* a variant of item_step that appends without looking at seen_items
item_step_keep_all(m, st) ==
    LET f      == float_of_capture[m.price_str]
        qty    == digits_value(m.qty_str)
        price_per_item == IF qty > 0 THEN Frac(f.val, qty) ELSE Frac(f.val, 1)
    IN  IF f.exc # "" \/ f.val <= 0 \/ f.val >= MAX_ITEM_PRICE * 1000 THEN st
        ELSE [st EXCEPT !.items = Append(@, [name |-> m.name, qty |-> qty,
                                             price |-> price_per_item])]

\* lines 301-324 for one match m with a valid name: st = [exc, items, seen_items]
item_step(m, st) ==
    LET f      == float_of_capture[m.price_str]
        price  == f.val
        qty    == digits_value(m.qty_str)
        price_per_item == IF qty > 0 THEN Frac(price, qty) ELSE Frac(price, 1)
        item_key == <<m.name_lower, round2(price_per_item.n, price_per_item.d)>>
    IN  IF f.exc # ""
        THEN (IF f.exc \in ItemsExcept THEN st ELSE [st EXCEPT !.exc = f.exc])
        ELSE IF price <= 0 \/ price >= MAX_ITEM_PRICE * 1000 THEN st
        ELSE IF item_key \in st.seen_items THEN st
        ELSE [st EXCEPT !.seen_items = @ \cup {item_key},
                        !.items = Append(@, [name |-> m.name, qty |-> qty,
                                             price |-> price_per_item])]

\* the loop of line 275 over the patterns, for one line that is not skipped;
\* the break of line 322 leaves the loop over one pattern's matches only
RECURSIVE items_of_line(_, _, _)
items_of_line(ms, k, st) ==
    IF k > Len(ms) \/ st.exc # "" THEN st
    ELSE items_of_line(ms, k + 1, IF ms[k] = <<>> THEN st ELSE item_step(ms[k][1], st))

\* the loop of line 263 over the lines
RECURSIVE items_from(_, _, _)
items_from(t, i, st) ==
    IF i > Len(t) \/ st.exc # "" THEN st
    ELSE items_from(t, i + 1, items_of_line(items_on_line[t[i]], 1, st))

\* line 326 after the loops have left st: [exc, val]
items_of(st) == [exc |-> st.exc, val |-> IF st.exc # "" THEN <<>> ELSE st.items]

\* _extract_items(text, normalized): [exc, val]
extract_items(t) ==
    items_of(items_from(t, 1, [exc |-> "", items |-> <<>>, seen_items |-> {}]))

(***************************************************************************)
(* _extract_tax, _extract_delivery_fee, _extract_platform_fee,             *)
(* _extract_discount                                                       *)
(***************************************************************************)
\* A span regex  (?:opener|...)[^rupee]* tail  runs from an opener word over
\* any characters but the rupee sign to a tail, itself a label regex.
\* span_opens: line l holds an opener; span_tail: what the tail captures on
\* line l ("" = no match), where on the opener's own line (same) the tail's
\* word has to follow the opener.
span_opens(l, sp) == \E o \in sp.openers : Contains(lower(l.pre), o)

span_tail(l, sp, same) ==
    LET key  == rstrip(lower(l.pre), sp.tail.gap)
        word == CHOOSE k \in sp.tail.phrases : TRUE
        follows == \E o \in sp.openers : Contains(SubSeq(key, 1, Len(key) - Len(word)), o)
    IN  IF same /\ word # "" /\ ~follows THEN "" ELSE label_capture(l, sp.tail)

\* lines 335-342
tax_patterns ==
    << label_regex({"tax", "gst", "vat", "cgst", "sgst", "igst"},
                   "optional", TRUE, LabelGap, 1, FALSE),
       label_regex({"tax amount", "gst amount", "vat amount"},
                   "optional", FALSE, LabelGap, 1, FALSE) >>

tax_span == [openers |-> {"subtotal", "items total"},
             tail |-> label_regex({"tax"}, "optional", FALSE, LabelGap, 1, FALSE)]

\* lines 368-375
delivery_patterns ==
    << label_regex({"delivery fee", "delivery charges", "delivery charge"},
                   "optional", FALSE, LabelGap, 1, FALSE),
       label_regex({"delivery"}, "optional", TRUE, LabelGap, 1, FALSE),
       label_regex({"delivery fee", "delivery charges", "delivery charge"},
                   "required", FALSE, SpaceGap, 1, FALSE) >>

\* lines 400-407
platform_patterns ==
    << label_regex({"platform fee", "platform charge", "platform charges",
                    "convenience fee", "convenience charge", "convenience charges",
                    "service fee", "service charge", "service charges"},
                   "optional", FALSE, LabelGap, 1, FALSE),
       label_regex({"platform fee", "platform charge", "platform charges",
                    "convenience fee", "convenience charge", "convenience charges"},
                   "required", FALSE, SpaceGap, 1, FALSE),
       label_regex({"convenience charge"}, "optional", FALSE, LabelGap, 1, FALSE) >>

\* lines 432-441: a minus sign may stand before the amount
discount_patterns ==
    << label_regex({"discount"}, "optional", FALSE, LabelGap, 1, TRUE),
       label_regex({"offer", "promo", "promotion", "savings", "you saved"},
                   "optional", FALSE, LabelGap, 1, TRUE),
       label_regex({"discount"}, "required", FALSE, SpaceGap, 1, TRUE) >>

discount_span == [openers |-> {"discount", "offer", "promo"},
                  tail |-> label_regex({""}, "required", FALSE, {}, 0, FALSE)]

NoSpan == [openers |-> {}, tail |-> label_regex({""}, "required", FALSE, {}, 0, FALSE)]

\* what the regexes of one extractor find on line l: the capture of each label
\* regex, and for its span regex whether l opens it and what its tail captures
fee_on(l, regexes, sp) ==
    [captures |-> captures_on(l, regexes),
     opens    |-> span_opens(l, sp),
     tail     |-> [same \in BOOLEAN |-> span_tail(l, sp, same)],
     sym      |-> l.sym]

\* the same for each line of the vocabulary
tax_on_line      == [l \in LineVocab |-> fee_on(l, tax_patterns, tax_span)]
delivery_on_line == [l \in LineVocab |-> fee_on(l, delivery_patterns, NoSpan)]
platform_on_line == [l \in LineVocab |-> fee_on(l, platform_patterns, NoSpan)]
discount_on_line == [l \in LineVocab |-> fee_on(l, discount_patterns, discount_span)]

\* re.finditer for the k-th label regex: its captures, in text order; fs holds
\* for each line of the text what the extractor's regexes find on it
label_captures(fs, k) ==
    LET hit(f) == f.captures[k] # ""
        hits   == SelectSeq(fs, hit)
    IN  [i \in 1..Len(hits) |-> hits[i].captures[k]]

\* for each line: does it open a span, does it hold a rupee sign
opens_span(fs) == [k \in 1..Len(fs) |-> fs[k].opens]
has_sym(fs) == [k \in 1..Len(fs) |-> fs[k].sym]

\* re.finditer for the span regex from line s on: it takes the leftmost
\* opener, [^rupee]* is greedy, so the match ends at the last line up to the
\* first rupee sign on which the tail matches; the search resumes after it
RECURSIVE span_captures(_, _)
span_captures(fs, s) ==
    LET i == first_line(opens_span(fs), s)
        j == IF i = 0 THEN 0 ELSE first_line(has_sym(fs), i)
        last == IF j = 0 THEN Len(fs) ELSE j
        ends == {k \in i..last : fs[k].tail[k = i] # ""}
    IN  IF i = 0 THEN <<>>
        ELSE IF ends = {} THEN span_captures(fs, i + 1)
        ELSE LET k == CHOOSE k \in ends : \A m \in ends : m <= k
             IN  <<fs[k].tail[k = i]>> \o span_captures(fs, k + 1)

\* all captures in the order the loops over patterns and matches visit them
RECURSIVE pattern_captures(_, _, _)
pattern_captures(fs, k, n) ==
    IF k > n THEN span_captures(fs, 1)
    ELSE label_captures(fs, k) \o pattern_captures(fs, k + 1, n)

\* the exception classes the fee extractors catch (lines 355, 388, 420, 454)
FeeExcept == {"ValueError", "IndexError"}

\* is amount a in the range rg = [min, open, max] (open: min itself excluded)
in_range(a, rg) ==
    /\ IF rg.open THEN rg.min * 1000 < a ELSE rg.min * 1000 <= a
    /\ a <= rg.max * 1000

\* the loop body shared by the four extractors: the captures that parse and
\* lie in the field's range, in order: st = [exc, candidates]
RECURSIVE fee_candidates(_, _, _, _)
fee_candidates(caps, i, rg, st) ==
    IF i > Len(caps) \/ st.exc # "" THEN st
    ELSE LET f == float_of_capture[caps[i]]
         IN  IF f.exc # ""
             THEN fee_candidates(caps, i + 1, rg,
                     IF f.exc \in FeeExcept THEN st ELSE [st EXCEPT !.exc = f.exc])
             ELSE IF in_range(f.val, rg)
             THEN fee_candidates(caps, i + 1, rg,
                     [st EXCEPT !.candidates = Append(@, f.val)])
             ELSE fee_candidates(caps, i + 1, rg, st)

NoCandidates == [exc |-> "", candidates |-> <<>>]

\* a variant of seq_max that takes the first element
seq_first(q) == q[1]

seq_max(q) == CHOOSE x \in {q[i] : i \in 1..Len(q)} : \A j \in 1..Len(q) : q[j] <= x

\* max(candidates) if candidates else None (line 360): [exc, val]
max_candidate(st) ==
    [exc |-> st.exc,
     val |-> IF st.exc # "" \/ st.candidates = <<>> THEN None
             ELSE Some(seq_max(st.candidates))]

\* candidates[0] if candidates else None (lines 392, 424, 458): [exc, val]
first_candidate(st) ==
    [exc |-> st.exc,
     val |-> IF st.exc # "" \/ st.candidates = <<>> THEN None
             ELSE Some(st.candidates[1])]

MAX_TAX == 5000
MAX_DELIVERY == 500
MAX_PLATFORM == 100
MAX_DISCOUNT == 10000

tax_captures(t) ==
    pattern_captures([i \in 1..Len(t) |-> tax_on_line[t[i]]], 1, Len(tax_patterns))

\* _extract_tax(normalized): [exc, val], val the largest candidate
extract_tax(t) ==
    max_candidate(fee_candidates(tax_captures(t), 1,
                                 [min |-> 0, open |-> TRUE, max |-> MAX_TAX], NoCandidates))

delivery_captures(t) ==
    pattern_captures([i \in 1..Len(t) |-> delivery_on_line[t[i]]], 1, Len(delivery_patterns))

\* _extract_delivery_fee(normalized): [exc, val], val the first candidate
extract_delivery_fee(t) ==
    first_candidate(fee_candidates(delivery_captures(t), 1,
                                   [min |-> 0, open |-> FALSE, max |-> MAX_DELIVERY], NoCandidates))

platform_captures(t) ==
    pattern_captures([i \in 1..Len(t) |-> platform_on_line[t[i]]], 1, Len(platform_patterns))

\* _extract_platform_fee(normalized): [exc, val], val the first candidate
extract_platform_fee(t) ==
    first_candidate(fee_candidates(platform_captures(t), 1,
                                   [min |-> 0, open |-> FALSE, max |-> MAX_PLATFORM], NoCandidates))

discount_captures(t) ==
    pattern_captures([i \in 1..Len(t) |-> discount_on_line[t[i]]], 1, Len(discount_patterns))

\* _extract_discount(normalized): [exc, val], val the first candidate
extract_discount(t) ==
    first_candidate(fee_candidates(discount_captures(t), 1,
                                   [min |-> 0, open |-> TRUE, max |-> MAX_DISCOUNT], NoCandidates))

(***************************************************************************)
(* _extract_merchant, _extract_date, _extract_time                         *)
(***************************************************************************)
KNOWN_MERCHANTS ==
    {"swiggy", "zomato", "uber eats", "blinkit", "bigbasket", "zepto",
     "phonepe", "google pay", "paytm", "bhim", "cred",
     "amazon", "flipkart", "myntra",
     "domino", "pizza hut", "kfc", "mcdonald"}

MAX_MERCHANT_LEN == 50

\* the known merchants each line of the vocabulary holds, and the line stripped
merchants_on_line == [l \in LineVocab |-> {m \in KNOWN_MERCHANTS : Contains(lower(line_text(l)), m)}]

stripped_line == [l \in LineVocab |-> strip(line_text(l))]

\* _extract_merchant(text, normalized, hint): the values it can return.  The
\* loop of line 119 walks a set, whose order is not fixed: when several known
\* merchants occur in the text, any of them may be the first one met.
extract_merchant(t, h) ==
    LET known == UNION {merchants_on_line[t[i]] : i \in 1..Len(t)}
    IN  IF h # "" THEN {title(h)}
        ELSE IF known # {} THEN {title(m) : m \in known}
        ELSE IF Len(t) >= 1 /\ stripped_line[t[1]] # ""
                /\ Len(stripped_line[t[1]]) < MAX_MERCHANT_LEN
             THEN {stripped_line[t[1]]}
        ELSE {"Unknown Merchant"}

\* str(n) for n >= 0
RECURSIVE str(_)
str(n) == IF n < 10 THEN Ch(DIGITS, n + 1) ELSE str(n \div 10) \o Ch(DIGITS, (n % 10) + 1)

\* s.zfill(2)
zfill2(s) == IF Len(s) < 2 THEN SubSeq("00", 1, 2 - Len(s)) \o s ELSE s

digits_at(s, i, n) ==
    /\ i + n - 1 <= Len(s)
    /\ \A k \in i..(i + n - 1) : IsDigit(Ch(s, k))

\* (\d{1,2})[/-](\d{1,2})[/-](\d{2,4}) matched at position i of s:
\* <<day, month, year, group0>> or <<>>
numeric_date_at(s, i) ==
    LET sep(k) == k <= Len(s) /\ Ch(s, k) \in {"/", "-"}
        dl == IF digits_at(s, i, 2) /\ sep(i + 2) THEN 2
              ELSE IF digits_at(s, i, 1) /\ sep(i + 1) THEN 1 ELSE 0
        m0 == i + dl + 1
        ml == IF digits_at(s, m0, 2) /\ sep(m0 + 2) THEN 2
              ELSE IF digits_at(s, m0, 1) /\ sep(m0 + 1) THEN 1 ELSE 0
        y0 == m0 + ml + 1
        run == prefix_len(SubSeq(s, y0, Len(s)), DigitSet)
        yl == IF run > 4 THEN 4 ELSE run
    IN  IF dl > 0 /\ ml > 0 /\ yl >= 2
        THEN << SubSeq(s, i, i + dl - 1), SubSeq(s, m0, m0 + ml - 1),
                SubSeq(s, y0, y0 + yl - 1), SubSeq(s, i, y0 + yl - 1) >>
        ELSE <<>>

MONTHS == {"jan", "feb", "mar", "apr", "may", "jun", "jul", "aug", "sep", "oct", "nov", "dec"}

\* (\d{1,2})\s+(jan|...|dec)\s+(\d{2,4}) matched at position i of s, ignoring
\* case: <<day, month, year, group0>> or <<>>
textual_date_at(s, i) ==
    LET sp(k) == prefix_len(SubSeq(s, k, Len(s)), {" "})
        dl == IF digits_at(s, i, 2) /\ sp(i + 2) > 0 THEN 2
              ELSE IF digits_at(s, i, 1) /\ sp(i + 1) > 0 THEN 1 ELSE 0
        m0 == i + dl + sp(i + dl)
        y0 == m0 + 3 + sp(m0 + 3)
        run == prefix_len(SubSeq(s, y0, Len(s)), DigitSet)
        yl == IF run > 4 THEN 4 ELSE run
    IN  IF /\ dl > 0
           /\ m0 + 2 <= Len(s) /\ lower(SubSeq(s, m0, m0 + 2)) \in MONTHS
           /\ sp(m0 + 3) > 0
           /\ yl >= 2
        THEN << SubSeq(s, i, i + dl - 1), SubSeq(s, m0, m0 + 2),
                SubSeq(s, y0, y0 + yl - 1), SubSeq(s, i, y0 + yl - 1) >>
        ELSE <<>>

\* re.search(pattern, line): the groups of the leftmost match numeric_date_at
\* or textual_date_at finds in the string s, or <<>>
search_numeric_date_in(s) == first_match([i \in 1..Len(s) |-> numeric_date_at(s, i)], 1)

search_textual_date_in(s) == first_match([i \in 1..Len(s) |-> textual_date_at(s, i)], 1)

\* the same for each line of the vocabulary
date_on_line ==
    [l \in LineVocab |-> [numeric |-> search_numeric_date_in(line_text(l)),
                          textual |-> search_textual_date_in(line_text(l))]]

\* re.search(pattern, text): the match of the first line that has one
search_numeric_date(t) == first_match([k \in 1..Len(t) |-> date_on_line[t[k]].numeric], 1)

search_textual_date(t) == first_match([k \in 1..Len(t) |-> date_on_line[t[k]].textual], 1)

\* lines 192-199 for one match: the returned string, or None when the match
\* holds neither '/' nor '-'
date_of_match(g) ==
    IF Contains(g[4], "/") \/ Contains(g[4], "-")
    THEN LET year == IF Len(g[3]) = 2 THEN "20" \o g[3] ELSE g[3]
         IN  Some(year \o "-" \o zfill2(g[2]) \o "-" \o zfill2(g[1]))
    ELSE None

\* the loop of lines 189-199 over the two patterns, n and x their matches
date_of(n, x) ==
    LET a == IF n = <<>> THEN None ELSE date_of_match(n)
        b == IF x = <<>> THEN None ELSE date_of_match(x)
    IN  IF a # None THEN a ELSE b

\* _extract_date(text)
extract_date(t) == date_of(search_numeric_date(t), search_textual_date(t))

\* (\d{1,2}):(\d{2})\s*(am|pm)? matched at position i of s, ignoring case:
\* <<hour, minute, am_pm, open>> (am_pm "" when the group is unset, open
\* when only spaces follow the minutes on the line) or <<>>
time_at(s, i) ==
    LET hl == IF digits_at(s, i, 2) /\ i + 2 <= Len(s) /\ Ch(s, i + 2) = ":" THEN 2
              ELSE IF digits_at(s, i, 1) /\ i + 1 <= Len(s) /\ Ch(s, i + 1) = ":" THEN 1 ELSE 0
        m0 == i + hl + 1
        a0 == m0 + 2 + prefix_len(SubSeq(s, m0 + 2, Len(s)), {" "})
        ap == IF a0 + 1 <= Len(s) THEN lower(SubSeq(s, a0, a0 + 1)) ELSE ""
    IN  IF hl > 0 /\ digits_at(s, m0, 2)
        THEN << SubSeq(s, i, i + hl - 1), SubSeq(s, m0, m0 + 1),
                IF ap \in {"am", "pm"} THEN ap ELSE "", a0 > Len(s) >>
        ELSE <<>>

\* time[:\s]+(\d{1,2}):(\d{2}) matched with its hour at position i of s
labelled_time_at(s, i) ==
    LET before == lower(SubSeq(s, 1, i - 1))
        key    == rstrip(before, LabelGap)
        g      == time_at(s, i)
    IN  IF g # <<>> /\ Len(key) < Len(before) /\ EndsWith(key, "time")
        THEN <<g[1], g[2], "", FALSE>>
        ELSE <<>>

\* re.search(pattern, line) for the two time patterns: the groups of the
\* leftmost match in the string s, or <<>>
search_time_in(s, labelled) ==
    first_match([i \in 1..Len(s) |->
                    IF labelled THEN labelled_time_at(s, i) ELSE time_at(s, i)], 1)

\* the same for each line of the vocabulary
time_on_line ==
    [l \in LineVocab |-> [labelled \in BOOLEAN |-> search_time_in(line_text(l), labelled)]]

\* what \s*(am|pm)? finds at the start of each line: "am", "pm" or ""
suffix_on_line ==
    [l \in LineVocab |->
        IF Len(stripped_line[l]) >= 2 /\ lower(SubSeq(stripped_line[l], 1, 2)) \in {"am", "pm"}
        THEN lower(SubSeq(stripped_line[l], 1, 2)) ELSE ""]

\* the match on line k of the text; when the line ends after the minutes,
\* \s*(am|pm)? runs over the line break and the blank lines to the start of
\* the next line with text
with_suffix(t, k, labelled) ==
    LET j == first_line([m \in 1..Len(t) |-> m > k /\ stripped_line[t[m]] # ""], 1)
    IN  IF k = 0 THEN <<>>
        ELSE IF time_on_line[t[k]][labelled][4] /\ j > 0 /\ suffix_on_line[t[j]] # ""
        THEN << time_on_line[t[k]][labelled][1], time_on_line[t[k]][labelled][2],
                suffix_on_line[t[j]], FALSE >>
        ELSE time_on_line[t[k]][labelled]

\* re.search(pattern, text): the match of the first line that has one
search_time(t, labelled) ==
    with_suffix(t, first_line([k \in 1..Len(t) |-> time_on_line[t[k]][labelled] # <<>>], 1),
                labelled)

\* lines 215-224 for one match
time_of_match(g) ==
    LET hour0 == digits_value(g[1])
        hour  == IF g[3] = "pm" /\ hour0 < 12 THEN hour0 + 12
                 ELSE IF g[3] = "am" /\ hour0 = 12 THEN 0
                 ELSE hour0
    IN  Some(zfill2(str(hour)) \o ":" \o g[2])

\* the loop of lines 211-226 over the two patterns, a and b their matches
time_of(a, b) ==
    IF a # <<>> THEN time_of_match(a)
    ELSE IF b # <<>> THEN time_of_match(b)
    ELSE None

\* _extract_time(text)
extract_time(t) == time_of(search_time(t, FALSE), search_time(t, TRUE))

(***************************************************************************)
(* parse                                                                   *)
(***************************************************************************)
FracAdd(a, b) == Frac(a.n * b.d + b.n * a.d, a.d * b.d)

\* sum(item.price * item.qty for item in items)
RECURSIVE items_sum(_)
items_sum(items) ==
    IF items = <<>> THEN Frac(0, 1)
    ELSE FracAdd(Frac(items[1].price.n * items[1].qty, items[1].price.d),
                 items_sum(Tail(items)))

\* an optional amount used as a condition (if tax: ...) and as a number
truthy(opt) == opt # None /\ opt[1] # 0

\* lines 79-96
subtotal_of(total, items, tax, delivery_fee, platform_fee, discount) ==
    IF Len(items) > 0
    THEN items_sum(items)
    ELSE LET s1 == total - (IF truthy(tax) THEN tax[1] ELSE 0)
             s2 == s1 - (IF truthy(delivery_fee) THEN delivery_fee[1] ELSE 0)
             s3 == s2 - (IF truthy(platform_fee) THEN platform_fee[1] ELSE 0)
             s4 == s3 + (IF truthy(discount) THEN discount[1] ELSE 0)
         IN  Frac(IF s4 > 0 THEN s4 ELSE 0, 1)

\* not text (line 55): the string is empty
not_text(t) == t = <<>> \/ (Len(t) = 1 /\ line_text(t[1]) = "")

\* the record of lines 55-56
empty_text_result == [merchant |-> "Unknown", total |-> 0, items |-> <<>>]

\* the exception of the first extractor that raised one, "" when none did
RECURSIVE first_exc(_)
first_exc(q) ==
    IF q = <<>> THEN "" ELSE IF Head(q).exc # "" THEN Head(q).exc ELSE first_exc(Tail(q))

\* lines 58-110 once the extractors have returned: [exc, val]; an exception
\* of an extractor leaves parse
parse_record(merchant, cur, total, date, time, items, tax, delivery_fee, platform_fee, discount) ==
    IF first_exc(<<total, items, tax, delivery_fee, platform_fee, discount>>) # ""
    THEN [exc |-> first_exc(<<total, items, tax, delivery_fee, platform_fee, discount>>),
          val |-> empty_text_result]
    ELSE [exc |-> "",
          val |-> [merchant     |-> merchant,
                   currency     |-> cur,
                   subtotal     |-> subtotal_of(total.val, items.val, tax.val,
                                                delivery_fee.val, platform_fee.val,
                                                discount.val),
                   total        |-> total.val,
                   items        |-> items.val,
                   date         |-> date,
                   time         |-> time,
                   tax          |-> tax.val,
                   delivery_fee |-> delivery_fee.val,
                   platform_fee |-> platform_fee.val,
                   discount     |-> discount.val]]

\* parse(text, hint, currency) with the merchant the extractor returned:
\* [exc, val]
parse_with(t, merchant, cur) ==
    IF not_text(t) THEN [exc |-> "", val |-> empty_text_result]
    ELSE parse_record(merchant, cur, extract_amount(t), extract_date(t), extract_time(t),
                      extract_items(t), extract_tax(t), extract_delivery_fee(t),
                      extract_platform_fee(t), extract_discount(t))

(***************************************************************************)
(* suggest_split                                                           *)
(***************************************************************************)
\* repr of a float that is a whole number of hundredths, v in Milli units >= 0:
\* "33.33", "50.0", "0.1"
float_repr(v) ==
    LET c  == (v % 1000) \div 10
        d1 == c \div 10
        d2 == c % 10
    IN  str(v \div 1000) \o "." \o str(d1) \o (IF d2 = 0 THEN "" ELSE str(d2))

\* lines 492-500: the dict after the loop has reached index i
RECURSIVE split_loop(_, _, _, _, _)
split_loop(ids, i, amount_per_person, remaining, splits) ==
    IF i > Len(ids) THEN splits
    ELSE IF i = Len(ids)
    THEN split_loop(ids, i + 1, amount_per_person, remaining,
                    (ids[i] :> round2(remaining, 1)) @@ splits)
    ELSE split_loop(ids, i + 1, amount_per_person, remaining - amount_per_person,
                    (ids[i] :> amount_per_person) @@ splits)

\* a variant of suggest_split that only looks at the member list
suggest_split_members_only(total, items, ids) ==
    IF Len(ids) = 0 THEN None
    ELSE Some([type |-> "item-based",
               amount_per_person |-> round2(total, Len(ids)),
               explanation |-> ""])

\* suggest_split(total, items, member_ids): None or Some(suggestion)
suggest_split(total, items, ids) ==
    LET amount_per_person == round2(total, Len(ids))
    IN  IF Len(ids) = 0 THEN None
        ELSE IF total <= 0 THEN None
        ELSE IF Len(items) > 0
        THEN Some([type |-> "item-based",
                   amount_per_person |-> amount_per_person,
                   explanation |-> "Split " \o str(Len(items)) \o " items equally among "
                                   \o str(Len(ids)) \o " people"])
        ELSE Some([type |-> "equal",
                   amount_per_person |-> amount_per_person,
                   splits |-> split_loop(ids, 1, amount_per_person, total, <<>>),
                   explanation |-> "Equal split: " \o RUPEE \o float_repr(amount_per_person)
                                   \o " per person"])

(***************************************************************************)
(* Inputs                                                                  *)
(***************************************************************************)
MaxMembers == 5

\* the calls of parse: with its default arguments, with a merchant hint and
\* with another currency
Calls == { [hint |-> "", currency |-> "INR"],
           [hint |-> "swiggy", currency |-> "INR"],
           [hint |-> "", currency |-> "USD"] }

\* suggest_split's arguments: totals in Milli units, item lists, member ids
Totals == {-5000, 0, 28, 10004, 100000, 450000}
ItemArgs ==
    { <<>>,
      <<[name |-> "Masala Dosa", qty |-> 2, price |-> Frac(90000, 1)]>>,
      <<[name |-> "Masala Dosa", qty |-> 2, price |-> Frac(90000, 1)],
        [name |-> "Filter Coffee", qty |-> 1, price |-> Frac(40000, 1)]>> }
MemberIds == {"m1", "m2", "m3"}
MemberLists == SeqsUpTo(MemberIds, MaxMembers)

NoResult == [merchant |-> "", total |-> 0, items |-> <<>>]

\* no request has reached the routers; the store of sync.py line 13 is empty
NoRequests == request = None /\ response = None /\ storage = <<>> /\ received = <<>>

\* no call on the shared instance is under way; the catalog is the class
\* attribute of lines 31-36
NoCalls == calls = <<>> /\ locals = <<>> /\ catalog = KNOWN_MERCHANTS /\ NoRequests

(***************************************************************************)
(* The parser called on a text                                             *)
(***************************************************************************)
Init ==
    /\ text \in Texts
    /\ \E c \in Calls : hint = c.hint /\ currency = c.currency
    /\ pc = "ready"
    /\ result = NoResult
    /\ total_arg = 0
    /\ items_arg = <<>>
    /\ member_ids = <<>>
    /\ split = None
    /\ NoCalls

\* parse leaves with r = [exc, val]: a return, or an exception
Leaves(r) ==
    /\ pc' = IF r.exc = "" THEN "returned" ELSE "raised"
    /\ result' = r.val

\* one call of parse: it returns a record or leaves with an exception
Parse ==
    /\ pc = "ready"
    /\ \E merchant \in extract_merchant(text, hint) :
          Leaves(parse_with(text, merchant, currency))
    /\ UNCHANGED <<text, hint, currency, total_arg, items_arg, member_ids, split>>
    /\ UNCHANGED <<calls, locals, catalog, request, response, storage, received>>

Next == Parse

Spec == Init /\ [][Next]_vars

(***************************************************************************)
(* The parser called on texts with and without a merchant                  *)
(***************************************************************************)
MerchantHints == {"", "swiggy", "pizza hut", "  "}

InitMerchant ==
    /\ text \in SeqsUpTo(MerchantLines, MaxLines)
    /\ hint \in MerchantHints
    /\ currency = "INR"
    /\ pc = "ready"
    /\ result = NoResult
    /\ total_arg = 0
    /\ items_arg = <<>>
    /\ member_ids = <<>>
    /\ split = None
    /\ NoCalls

SpecMerchant == InitMerchant /\ [][Next]_vars

(***************************************************************************)
(* The parser called on texts of item lines                                *)
(***************************************************************************)
InitItems ==
    /\ text \in SeqsUpTo(ItemLines, MaxLines)
    /\ hint = ""
    /\ currency = "INR"
    /\ pc = "ready"
    /\ result = NoResult
    /\ total_arg = 0
    /\ items_arg = <<>>
    /\ member_ids = <<>>
    /\ split = None
    /\ NoCalls

SpecItems == InitItems /\ [][Next]_vars

(***************************************************************************)
(* The parser called on texts of lines with clock times                    *)
(***************************************************************************)
InitTime ==
    /\ text \in SeqsUpTo(TimeLines, MaxLines)
    /\ hint = ""
    /\ currency = "INR"
    /\ pc = "ready"
    /\ result = NoResult
    /\ total_arg = 0
    /\ items_arg = <<>>
    /\ member_ids = <<>>
    /\ split = None
    /\ NoCalls

SpecTime == InitTime /\ [][Next]_vars

(***************************************************************************)
(* The parser called on texts of labelled fee lines                        *)
(***************************************************************************)
InitFees ==
    /\ text \in SeqsUpTo(FeeLines, MaxLines)
    /\ hint = ""
    /\ currency = "INR"
    /\ pc = "ready"
    /\ result = NoResult
    /\ total_arg = 0
    /\ items_arg = <<>>
    /\ member_ids = <<>>
    /\ split = None
    /\ NoCalls

SpecFees == InitFees /\ [][Next]_vars

(***************************************************************************)
(* suggest_split called on its arguments                                   *)
(***************************************************************************)
InitSplit ==
    /\ text = <<>>
    /\ hint = ""
    /\ currency = "INR"
    /\ pc = "ready"
    /\ result = NoResult
    /\ total_arg \in Totals
    /\ items_arg \in ItemArgs
    /\ member_ids \in MemberLists
    /\ split = None
    /\ NoCalls

SuggestSplit ==
    /\ pc = "ready"
    /\ split' = suggest_split(total_arg, items_arg, member_ids)
    /\ pc' = "returned"
    /\ UNCHANGED <<text, hint, currency, result, total_arg, items_arg, member_ids>>
    /\ UNCHANGED <<calls, locals, catalog, request, response, storage, received>>

NextSplit == SuggestSplit

SpecSplit == InitSplit /\ [][NextSplit]_vars

(***************************************************************************)
(* Concurrent calls on the shared instance receipt_parser                  *)
(* (app/routers/ocr.py line 28): two calls of parse and one of             *)
(* suggest_split, interleaved between the calls they make.  calls holds    *)
(* each call's arguments, position and outcome, locals the local variables *)
(* of each call's frame.                                                   *)
(***************************************************************************)
ParseCalls == {"p1", "p2"}
SplitCalls == {"s1"}

\* the arguments of the concurrent calls of parse
ConcArgs ==
    { [text |-> <<>>, hint |-> "swiggy", currency |-> "INR"],
      [text |-> <<Line("Grand Total: ", TRUE, "450.00", "")>>,
       hint |-> "", currency |-> "INR"],
      [text |-> <<Line("2x Masala Dosa ", TRUE, "180", ""), Line("Tax: ", FALSE, "20", ""),
                  Line("Total: ", TRUE, "300", "")>>,
       hint |-> "swiggy", currency |-> "INR"],
      [text |-> <<Line("Delivery Fee: ", TRUE, "40", ""), Line("Discount: ", TRUE, "50", ""),
                  Line("Paid ", TRUE, "300", "")>>,
       hint |-> "", currency |-> "USD"] }

\* the arguments of the concurrent call of suggest_split
ConcSplitArgs ==
    { [total |-> 100000, items |-> <<>>, ids |-> <<"m1", "m2", "m3">>],
      [total |-> 450000, items |-> <<[name |-> "Masala Dosa", qty |-> 2, price |-> Frac(90000, 1)]>>,
       ids |-> <<"m1", "m2">>] }

\* a variant of frame_of: every call keeps its local variables in one place
shared_frame(c) == "p1"

\* the frame that holds the local variables of call c: a frame of its own
frame_of(c) == c

\* the local variables of parse that the extractors' results are bound to
\* (lines 61-75), in the order of the calls
Fields ==
    << "merchant", "total", "date", "time", "items",
       "tax", "delivery_fee", "platform_fee", "discount" >>

NoLocals == [f \in {Fields[k] : k \in 1..Len(Fields)} |-> None]

\* the values the k-th extractor call of parse can return on the arguments a;
\* the merchant extractor reads the catalog
extracted(k, a) ==
    CASE k = 1 -> IF catalog = KNOWN_MERCHANTS THEN extract_merchant(a.text, a.hint) ELSE {}
      [] k = 2 -> {extract_amount(a.text)}
      [] k = 3 -> {extract_date(a.text)}
      [] k = 4 -> {extract_time(a.text)}
      [] k = 5 -> {extract_items(a.text)}
      [] k = 6 -> {extract_tax(a.text)}
      [] k = 7 -> {extract_delivery_fee(a.text)}
      [] k = 8 -> {extract_platform_fee(a.text)}
      [] k = 9 -> {extract_discount(a.text)}

InitConc ==
    /\ text = <<>>
    /\ hint = ""
    /\ currency = "INR"
    /\ pc = "ready"
    /\ result = NoResult
    /\ total_arg = 0
    /\ items_arg = <<>>
    /\ member_ids = <<>>
    /\ split = None
    /\ \E pa \in [ParseCalls -> ConcArgs], sa \in [SplitCalls -> ConcSplitArgs] :
          calls = [c \in ParseCalls \cup SplitCalls |->
                      [args    |-> IF c \in ParseCalls THEN pa[c] ELSE sa[c],
                       at      |-> 0,
                       outcome |-> "",
                       result  |-> IF c \in ParseCalls THEN NoResult ELSE None]]
    /\ locals = [f \in {frame_of(c) : c \in ParseCalls} |-> NoLocals]
    /\ catalog = KNOWN_MERCHANTS
    /\ NoRequests

\* lines 55-58: parse is entered; an empty text returns at once
Enter(c) ==
    /\ c \in ParseCalls
    /\ calls[c].outcome = "" /\ calls[c].at = 0
    /\ calls' = IF not_text(calls[c].args.text)
                THEN [calls EXCEPT ![c].outcome = "returned", ![c].result = empty_text_result]
                ELSE [calls EXCEPT ![c].at = 1]
    /\ UNCHANGED <<locals, catalog, request, response, storage, received>>
    /\ UNCHANGED <<text, hint, currency, pc, result, total_arg, items_arg, member_ids, split>>

\* lines 61-75: the next extractor is called on the call's own arguments and
\* its result is bound to a local variable of the call's frame
Extract(c) ==
    /\ c \in ParseCalls
    /\ calls[c].outcome = "" /\ calls[c].at \in 1..Len(Fields)
    /\ \E v \in extracted(calls[c].at, calls[c].args) :
          locals' = [locals EXCEPT ![frame_of(c)][Fields[calls[c].at]] = v]
    /\ calls' = [calls EXCEPT ![c].at = @ + 1]
    /\ UNCHANGED <<catalog, request, response, storage, received>>
    /\ UNCHANGED <<text, hint, currency, pc, result, total_arg, items_arg, member_ids, split>>

\* the record parse builds from the local variables l (lines 77-110)
record_of(l, cur) ==
    parse_record(l.merchant, cur, l.total, l.date, l.time, l.items,
                 l.tax, l.delivery_fee, l.platform_fee, l.discount)

\* lines 77-110: the record is built from the local variables of the frame
Return(c) ==
    /\ c \in ParseCalls
    /\ calls[c].outcome = "" /\ calls[c].at = Len(Fields) + 1
    /\ calls' = [calls EXCEPT
                    ![c].outcome = IF record_of(locals[frame_of(c)], calls[c].args.currency).exc = ""
                                   THEN "returned" ELSE "raised",
                    ![c].result = record_of(locals[frame_of(c)], calls[c].args.currency).val]
    /\ UNCHANGED <<locals, catalog, request, response, storage, received>>
    /\ UNCHANGED <<text, hint, currency, pc, result, total_arg, items_arg, member_ids, split>>

\* suggest_split works on its arguments and its own local variables only
SplitCall(c) ==
    /\ c \in SplitCalls
    /\ calls[c].outcome = ""
    /\ calls' = [calls EXCEPT
                    ![c].outcome = "returned",
                    ![c].result = suggest_split(calls[c].args.total, calls[c].args.items,
                                                calls[c].args.ids)]
    /\ UNCHANGED <<locals, catalog, request, response, storage, received>>
    /\ UNCHANGED <<text, hint, currency, pc, result, total_arg, items_arg, member_ids, split>>

NextConc ==
    \E c \in DOMAIN calls : Enter(c) \/ Extract(c) \/ Return(c) \/ SplitCall(c)

SpecConc == InitConc /\ [][NextConc]_vars

(***************************************************************************)
(* /settlement/validate and scripts/validate_bills.compute_balances        *)
(*                                                                         *)
(* A dict is a function together with the order in which its keys were     *)
(* inserted: the splits of an expense are a sequence of <<member, owed>>   *)
(* with distinct members, the balances a function over the member ids,     *)
(* kept in the order of the member list.  An audit line is a record of its *)
(* kind and of the values formatted into it.                               *)
(***************************************************************************)
MaxExpenses == 1
MaxSettlements == 2

\* "b" is a member of the second list only, "z" of neither
MemberRows == { <<[id |-> "a"]>>, <<[id |-> "a"], [id |-> "b"]>> }
Payers == {"a", "b"}
Parties == { <<"a", "b">>, <<"b", "a">>, <<"a", "a">>, <<"a", "z">>, <<"z", "b">> }
Amounts == {300, 10000}

\* the splits of an expense of amount amt: none, one member owing it all,
\* two halves (one of them possibly of an unlisted member), a short split
SplitsOf(amt) ==
    { <<>>, << <<"a", amt>> >>, << <<"a", amt \div 2>>, <<"b", amt \div 2>> >>,
      << <<"a", amt \div 2>>, <<"z", amt \div 2>> >>, << <<"a", amt - 500>> >> }
ExpenseRows ==
    UNION { { [id |-> "e", paid_by |-> p, splits |-> sp, amount |-> amt] :
                  p \in Payers, sp \in SplitsOf(amt) } : amt \in Amounts }
SettlementRows ==
    { [id |-> "s", from_id |-> p[1], to_id |-> p[2], amount |-> 5000] : p \in Parties }
ValidateRequests ==
    { [members |-> m, expenses |-> e, settlements |-> s] :
          m \in MemberRows, e \in SeqsUpTo(ExpenseRows, MaxExpenses),
          s \in SeqsUpTo(SettlementRows, MaxSettlements) }

\* settlement.py line 21, validate_bills.py line 27
zero_balances(members) == [m \in {members[k].id : k \in DOMAIN members} |-> 0]

\* lines 32-36: the splits of one expense from index i on; st = [balances,
\* split_total, audit]
RECURSIVE owed_loop(_, _, _)
owed_loop(splits, i, st) ==
    IF i > Len(splits) THEN st
    ELSE LET member_id == splits[i][1]
             owed      == splits[i][2]
         IN  IF member_id \in DOMAIN st.balances
             THEN owed_loop(splits, i + 1,
                      [balances    |-> [st.balances EXCEPT ![member_id] = @ - owed],
                       split_total |-> st.split_total + owed,
                       audit       |-> Append(st.audit,
                                         [kind |-> "owes", who |-> member_id, amount |-> owed])])
             ELSE owed_loop(splits, i + 1, st)

\* lines 39-41: the warning of an expense whose splits miss its amount by
\* more than a hundredth
split_warning(e, split_total) ==
    IF Abs(split_total - e.amount) > 10
    THEN <<[kind |-> "split warning", who |-> e.id, amount |-> split_total]>>
    ELSE <<>>

\* lines 25-41: the expenses from index i on; line 27 raises KeyError for a
\* payer that is not a key of balances
RECURSIVE expenses_loop(_, _, _, _)
expenses_loop(expenses, i, balances, audit) ==
    IF i > Len(expenses) THEN [exc |-> "", balances |-> balances, audit |-> audit]
    ELSE LET e == expenses[i]
         IN  IF e.paid_by \notin DOMAIN balances
             THEN [exc |-> "KeyError", balances |-> balances, audit |-> audit]
             ELSE LET st == owed_loop(e.splits, 1,
                              [balances    |-> [balances EXCEPT ![e.paid_by] = @ + e.amount],
                               split_total |-> 0,
                               audit       |-> Append(audit,
                                                 [kind |-> "expense", who |-> e.id,
                                                  amount |-> e.amount])])
                  IN  expenses_loop(expenses, i + 1, st.balances,
                                    st.audit \o split_warning(e, st.split_total))

\* a variant of lines 44-50 that credits the sender and leaves the receiver
RECURSIVE settlements_sender_only(_, _, _, _)
settlements_sender_only(settlements, i, balances, audit) ==
    IF i > Len(settlements) THEN [balances |-> balances, audit |-> audit]
    ELSE LET s == settlements[i]
         IN  IF s.from_id \in DOMAIN balances /\ s.to_id \in DOMAIN balances
             THEN settlements_sender_only(settlements, i + 1,
                      [balances EXCEPT ![s.from_id] = @ + s.amount],
                      Append(audit, [kind |-> "settlement", who |-> s.id, amount |-> s.amount]))
             ELSE settlements_sender_only(settlements, i + 1, balances,
                      Append(audit, [kind |-> "settlement warning", who |-> s.id, amount |-> 0]))

\* lines 44-50: the settlements from index i on
RECURSIVE settlements_loop(_, _, _, _)
settlements_loop(settlements, i, balances, audit) ==
    IF i > Len(settlements) THEN [balances |-> balances, audit |-> audit]
    ELSE LET s == settlements[i]
         IN  IF s.from_id \in DOMAIN balances /\ s.to_id \in DOMAIN balances
             THEN settlements_loop(settlements, i + 1,
                      [balances EXCEPT ![s.from_id] = @ + s.amount,
                                       ![s.to_id]   = @ - s.amount],
                      Append(audit, [kind |-> "settlement", who |-> s.id, amount |-> s.amount]))
             ELSE settlements_loop(settlements, i + 1, balances,
                      Append(audit, [kind |-> "settlement warning", who |-> s.id, amount |-> 0]))

\* line 53: sum(balances.values())
RECURSIVE sum_values(_, _)
sum_values(balances, ids) ==
    IF ids = {} THEN 0
    ELSE LET m == CHOOSE x \in ids : TRUE
         IN  balances[m] + sum_values(balances, ids \ {m})

\* lines 55-58: the balances above a hundredth, largest first, equal ones in
\* the order of the keys (sorted is stable, also with reverse=True)
RECURSIVE balance_summary(_, _)
balance_summary(balances, keys) ==
    IF keys = <<>> THEN <<>>
    ELSE LET k  == CHOOSE j \in DOMAIN keys :
                       /\ \A h \in DOMAIN keys : balances[keys[h]] <= balances[keys[j]]
                       /\ \A h \in 1..(j - 1) : balances[keys[h]] < balances[keys[j]]
             b  == balances[keys[k]]
             ln == IF Abs(b) > 10
                   THEN <<[kind   |-> IF b > 0 THEN "gets" ELSE "owes balance",
                           who    |-> keys[k],
                           amount |-> Abs(b)]>>
                   ELSE <<>>
         IN  ln \o balance_summary(balances, SubSeq(keys, 1, k - 1) \o
                                             SubSeq(keys, k + 1, Len(keys)))

\* lines 63-70: the status and its audit line
status_of(total) ==
    IF Abs(total) < 10 THEN [status |-> "ok", audit |-> <<>>]
    ELSE IF Abs(total) < 1000
    THEN [status |-> "warn", audit |-> <<[kind |-> "rounding warning", who |-> "", amount |-> 0]>>]
    ELSE [status |-> "error", audit |-> <<[kind |-> "error", who |-> "", amount |-> 0]>>]

\* lines 52-76, for the balances and the audit the two loops have left
validate_response(members, balances, audit) ==
    LET total == sum_values(balances, DOMAIN balances)
        keys  == [k \in DOMAIN members |-> members[k].id]
    IN  [balances |-> balances,
         audit    |-> audit \o <<[kind |-> "summary", who |-> "", amount |-> 0]>>
                         \o balance_summary(balances, keys)
                         \o <<[kind |-> "invariant", who |-> "", amount |-> total]>>
                         \o status_of(total).audit,
         status   |-> status_of(total).status]

\* lines 13-76: the response, or the exception the handler leaves with
validate(data) ==
    LET ex == expenses_loop(data.expenses, 1, zero_balances(data.members), <<>>)
    IN  IF ex.exc # "" THEN [exc |-> ex.exc, val |-> None]
        ELSE LET se == settlements_loop(data.settlements, 1, ex.balances, ex.audit)
             IN  [exc |-> "", val |-> validate_response(data.members, se.balances, se.audit)]

\* validate_bills.py lines 37-44: the splits of one expense from index i on
RECURSIVE script_splits(_, _, _)
script_splits(splits, i, balances) ==
    IF i > Len(splits) THEN balances
    ELSE script_splits(splits, i + 1,
             IF splits[i][1] \in DOMAIN balances
             THEN [balances EXCEPT ![splits[i][1]] = @ - splits[i][2]]
             ELSE balances)

\* validate_bills.py lines 30-44: the expenses from index i on
RECURSIVE script_expenses(_, _, _)
script_expenses(expenses, i, balances) ==
    IF i > Len(expenses) THEN balances
    ELSE LET e == expenses[i]
         IN  script_expenses(expenses, i + 1,
                 script_splits(e.splits, 1,
                     IF e.paid_by \in DOMAIN balances
                     THEN [balances EXCEPT ![e.paid_by] = @ + e.amount]
                     ELSE balances))

\* validate_bills.py lines 15-56; the settlements are applied as the endpoint
\* applies them (lines 47-54)
compute_balances(data) ==
    settlements_loop(data.settlements, 1,
        script_expenses(data.expenses, 1, zero_balances(data.members)), <<>>).balances

InitValidate ==
    /\ text = <<>>
    /\ hint = ""
    /\ currency = "INR"
    /\ pc = "ready"
    /\ result = NoResult
    /\ total_arg = 0
    /\ items_arg = <<>>
    /\ member_ids = <<>>
    /\ split = None
    /\ calls = <<>> /\ locals = <<>> /\ catalog = KNOWN_MERCHANTS
    /\ request \in ValidateRequests
    /\ response = None
    /\ storage = <<>>
    /\ received = <<>>

\* POST /settlement/validate with the request as its body
Validate ==
    /\ pc = "ready"
    /\ LET r == validate(request)
       IN  /\ pc' = IF r.exc = "" THEN "returned" ELSE "raised"
           /\ response' = Some(r)
    /\ UNCHANGED <<text, hint, currency, result, total_arg, items_arg, member_ids, split>>
    /\ UNCHANGED <<calls, locals, catalog, request, storage, received>>

\* the script run on the same data
ComputeBalances ==
    /\ result = NoResult
    /\ result' = compute_balances(request)
    /\ UNCHANGED <<text, hint, currency, pc, total_arg, items_arg, member_ids, split>>
    /\ UNCHANGED <<calls, locals, catalog, request, response, storage, received>>

NextValidate == Validate \/ ComputeBalances

SpecValidate == InitValidate /\ [][NextValidate]_vars

(***************************************************************************)
(* /sync/push and /sync/pull over the in-memory store                      *)
(***************************************************************************)
MaxRequests == 4

UserIds == {"u1", "u2"}
EmptyPayload == [k \in {} |-> 0]
Payloads == {EmptyPayload, [groups |-> 1], [groups |-> 2]}
UPDATED_AT == "2024-01-01T00:00:00Z"
SAVED == "Data saved successfully (placeholder - using in-memory storage)"

\* a variant of push that keeps the pushed user's entry only
push_single(store, req) ==
    [store    |-> (req.user_id :> [payload |-> req.payload, updated_at |-> UPDATED_AT]),
     response |-> [ok |-> TRUE, message |-> SAVED, user_id |-> req.user_id]]

\* sync.py lines 17-36: the store after the assignment of line 25, and the
\* response
push(store, req) ==
    [store    |-> (req.user_id :> [payload |-> req.payload, updated_at |-> UPDATED_AT])
                      @@ store,
     response |-> [ok |-> TRUE, message |-> SAVED, user_id |-> req.user_id]]

\* sync.py lines 40-61
pull(store, user_id) ==
    IF user_id \in DOMAIN store
    THEN [ok |-> TRUE, user_id |-> user_id, payload |-> store[user_id].payload]
    ELSE [ok |-> TRUE, user_id |-> user_id, payload |-> EmptyPayload]

InitSync ==
    /\ text = <<>>
    /\ hint = ""
    /\ currency = "INR"
    /\ pc = "ready"
    /\ result = NoResult
    /\ total_arg = 0
    /\ items_arg = <<>>
    /\ member_ids = <<>>
    /\ split = None
    /\ NoCalls

\* POST /sync/push
Push(u, p) ==
    /\ Len(received) < MaxRequests
    /\ LET req == [user_id |-> u, payload |-> p]
           r   == push(storage, req)
       IN  /\ request' = Some(req)
           /\ storage' = r.store
           /\ response' = Some(r.response)
           /\ received' = Append(received, [op |-> "push", user_id |-> u, payload |-> p])
    /\ UNCHANGED <<text, hint, currency, pc, result, total_arg, items_arg, member_ids, split>>
    /\ UNCHANGED <<calls, locals, catalog>>

\* GET /sync/pull
Pull(u) ==
    /\ Len(received) < MaxRequests
    /\ request' = Some([user_id |-> u])
    /\ response' = Some(pull(storage, u))
    /\ received' = Append(received, [op |-> "pull", user_id |-> u, payload |-> EmptyPayload])
    /\ UNCHANGED <<text, hint, currency, pc, result, total_arg, items_arg, member_ids, split>>
    /\ UNCHANGED <<calls, locals, catalog, storage>>

NextSync ==
    \/ \E u \in UserIds, p \in Payloads : Push(u, p)
    \/ \E u \in UserIds : Pull(u)

SpecSync == InitSync /\ [][NextSync]_vars

(***************************************************************************)
(* /ocr/parse-with-split: the receipt parser and suggest_split behind the  *)
(* endpoint; text is the text the OCR service has returned                 *)
(***************************************************************************)
EndpointLines ==
    { Line("Amount Paid ", TRUE, "500", ""),
      Line("Total: ", TRUE, "300", ""),
      Line("2x Masala Dosa ", TRUE, "180", ""),
      Line("Tax: ", FALSE, "20", ""),
      Line("Naan ", TRUE, ",", "") }
EndpointTexts == SeqsUpTo(EndpointLines, MaxLines)

\* the member_ids query parameter: absent, or a string
MemberParams ==
    { None, Some(""), Some("a"), Some(","), Some(" , "), Some("a,b"),
      Some(" b , ,a"), Some("c, ,a ,b") }

\* str.split(","): the pieces of s from index i on, piece being the one begun
RECURSIVE split_commas(_, _, _)
split_commas(s, i, piece) ==
    IF i > Len(s) THEN <<piece>>
    ELSE IF Ch(s, i) = "," THEN <<piece>> \o split_commas(s, i + 1, "")
    ELSE split_commas(s, i + 1, piece \o Ch(s, i))

\* a variant of member_list that neither trims nor drops blank entries
member_list_untrimmed(s) ==
    LET NonEmpty(m) == m # ""
    IN  SelectSeq(split_commas(s, 1, ""), NonEmpty)

\* ocr.py line 171: [m.strip() for m in member_ids.split(",") if m.strip()]
member_list(s) ==
    LET pieces == split_commas(s, 1, "")
        NonEmpty(m) == m # ""
    IN  SelectSeq([k \in DOMAIN pieces |-> strip(pieces[k])], NonEmpty)

\* dict.get(f) on the record r
get(r, f) == IF f \in DOMAIN r THEN r[f] ELSE None

\* ocr.py lines 178-184: the SplitSuggestion of a split_result
split_suggestion(split_result) ==
    IF split_result = None THEN None
    ELSE Some([type              |-> split_result[1].type,
               amount_per_person |-> split_result[1].amount_per_person,
               splits            |-> IF "splits" \in DOMAIN split_result[1]
                                     THEN Some(split_result[1].splits) ELSE None,
               explanation       |-> split_result[1].explanation])

\* ocr.py lines 169-184: the suggestion for the parsed receipt
suggested_split_of(parsed, param) ==
    IF param = None \/ param[1] = "" THEN None
    ELSE IF member_list(param[1]) = <<>> THEN None
    ELSE split_suggestion(suggest_split(parsed.total, parsed.items, member_list(param[1])))

\* ocr.py lines 186-206 for the outcome p of parse: the response, or the
\* HTTPException of line 206
split_response(p, cur, param) ==
    IF p.exc # "" THEN [exc |-> "HTTPException", val |-> None]
    ELSE [exc |-> "",
          val |-> [merchant        |-> p.val.merchant,
                   currency        |-> cur,
                   subtotal        |-> get(p.val, "subtotal"),
                   total           |-> p.val.total,
                   items           |-> p.val.items,
                   date            |-> get(p.val, "date"),
                   time            |-> get(p.val, "time"),
                   tax             |-> get(p.val, "tax"),
                   delivery_fee    |-> get(p.val, "delivery_fee"),
                   platform_fee    |-> get(p.val, "platform_fee"),
                   discount        |-> get(p.val, "discount"),
                   suggested_split |-> suggested_split_of(p.val, param)]]

\* ocr.py lines 138-206 once the OCR service has returned the text t
parse_with_split_suggestions(t, merchant, cur, param) ==
    split_response(parse_with(t, merchant, cur), cur, param)

InitEndpoint ==
    /\ text \in EndpointTexts
    /\ hint = ""
    /\ currency = "INR"
    /\ pc = "ready"
    /\ result = NoResult
    /\ total_arg = 0
    /\ items_arg = <<>>
    /\ member_ids = <<>>
    /\ split = None
    /\ calls = <<>> /\ locals = <<>> /\ catalog = KNOWN_MERCHANTS
    /\ \E param \in MemberParams : request = [member_ids |-> param]
    /\ response = None
    /\ storage = <<>>
    /\ received = <<>>

\* POST /ocr/parse-with-split
ParseWithSplit ==
    /\ pc = "ready"
    /\ \E merchant \in extract_merchant(text, hint) :
          LET r == parse_with_split_suggestions(text, merchant, currency, request.member_ids)
          IN  /\ pc' = IF r.exc = "" THEN "returned" ELSE "raised"
              /\ response' = Some(r)
    /\ UNCHANGED <<text, hint, currency, result, total_arg, items_arg, member_ids, split>>
    /\ UNCHANGED <<calls, locals, catalog, request, storage, received>>

NextEndpoint == ParseWithSplit

SpecEndpoint == InitEndpoint /\ [][NextEndpoint]_vars

(***************************************************************************)
(* Properties of the total extractor                                       *)
(***************************************************************************)
\* the matches of the total rules that parse and lie in the accepted range,
\* each with its rule's priority, before any deduplication
InRangeMatches(t) ==
    LET ms    == amount_matches(t, 1)
        ok(i) == LET f == float_of_capture[ms[i].group1]
                 IN  f.exc = "" /\ MIN_TOTAL * 1000 <= f.val /\ f.val <= MAX_TOTAL * 1000
    IN  {[amount |-> float_of_capture[ms[i].group1].val, priority |-> ms[i].priority] :
            i \in {i \in 1..Len(ms) : ok(i)}}

TopPriority(S) == CHOOSE p \in {m.priority : m \in S} : \A m \in S : m.priority <= p

RECURSIVE Reverse(_)
Reverse(q) == IF q = <<>> THEN <<>> ELSE Append(Reverse(Tail(q)), q[1])

\* C1: the returned total is the amount of an in-range match of the rule with
\* the highest priority among all in-range matches of the text, wherever the
\* matches stand (the text read backwards selects the same value); no
\* candidate of that priority, and no match of that priority up to rounding
\* to 2 decimals, has a larger amount.  Without in-range matches it is 0.
C1_HighestPriorityWins ==
    pc = "returned" =>
        LET ms  == InRangeMatches(text)
            cs  == amount_candidates(text).candidates
            top == TopPriority(ms)
        IN  IF ms = {} THEN result.total = 0
            ELSE /\ \E m \in ms : m.priority = top /\ m.amount = result.total
                 /\ \A i \in 1..Len(cs) :
                        cs[i].priority = top => cs[i].amount <= result.total
                 /\ \A m \in ms :
                        m.priority = top => round2(m.amount, 1) <= round2(result.total, 1)
                 /\ round2(extract_amount(Reverse(text)).val, 1) = round2(result.total, 1)

\* a lower-priority match with a larger amount is printed before the
\* highest-priority match, whose amount is returned
C1_Witness ==
    /\ pc = "returned"
    /\ \E i, j \in 1..Len(text) :
          /\ i < j
          /\ \E m \in InRangeMatches(<<text[i]>>) :
                /\ m.priority < TopPriority(InRangeMatches(text))
                /\ m.amount > result.total
          /\ \E m \in InRangeMatches(<<text[j]>>) :
                /\ m.priority = TopPriority(InRangeMatches(text))
                /\ m.amount = result.total

\* C5: the candidates hold every in-range matched value (rounded to 2
\* decimals) exactly once, each with the highest priority of the rules that
\* matched it; printing a line of the text once more after the text leaves
\* the returned amount unchanged, and printing it before the text leaves the
\* selected value (rounded to 2 decimals) unchanged.
C5_OneCandidatePerValue ==
    pc = "returned" =>
        LET cs == amount_candidates(text).candidates
            ms == InRangeMatches(text)
        IN  /\ \A i, j \in 1..Len(cs) :
                   i # j => round2(cs[i].amount, 1) # round2(cs[j].amount, 1)
            /\ {round2(cs[i].amount, 1) : i \in 1..Len(cs)} = {round2(m.amount, 1) : m \in ms}
            /\ \A i \in 1..Len(cs) :
                   cs[i].priority =
                       TopPriority({m \in ms : round2(m.amount, 1) = round2(cs[i].amount, 1)})
            /\ \A k \in 1..Len(text) :
                   /\ extract_amount(Append(text, text[k])).val = result.total
                   /\ round2(extract_amount(<<text[k]>> \o text).val, 1)
                          = round2(result.total, 1)

\* the selected value is printed on two lines and matched by rules of
\* different priority
C5_Witness ==
    /\ pc = "returned"
    /\ \E i, j \in 1..Len(text) :
          /\ i # j
          /\ \E m \in InRangeMatches(<<text[i]>>), n \in InRangeMatches(<<text[j]>>) :
                /\ m.priority # n.priority
                /\ m.amount = result.total
                /\ round2(n.amount, 1) = round2(m.amount, 1)

(***************************************************************************)
(* Properties of the item extractor                                        *)
(***************************************************************************)
\* the names the item patterns find on the lines of the vocabulary, lower-cased
ItemNames ==
    UNION {{items_on_line[l][k][1].name :
               k \in {k \in 1..Len(items_on_line[l]) : items_on_line[l][k] # <<>>}} :
           l \in LineVocab}

LowerName == [n \in ItemNames |-> lower(n)]

ItemKey(it) == <<LowerName[it.name], round2(it.price.n, it.price.d)>>

\* the keys of the matches with a valid name and a price in range
AcceptedKeys(t) ==
    LET key(m) == LET f   == float_of_capture[m.price_str]
                      qty == digits_value(m.qty_str)
                  IN  IF f.exc # "" \/ f.val <= 0 \/ f.val >= MAX_ITEM_PRICE * 1000
                      THEN {}
                      ELSE {<<LowerName[m.name], round2(f.val, IF qty > 0 THEN qty ELSE 1)>>}
        of_line(l) == UNION {key(items_on_line[l][k][1]) :
                                k \in {k \in 1..Len(items_on_line[l]) : items_on_line[l][k] # <<>>}}
    IN  UNION {of_line(t[i]) : i \in 1..Len(t)}

IsPrefix(a, b) == Len(a) <= Len(b) /\ SubSeq(b, 1, Len(a)) = a

\* C4: no two items of the returned list share the key (lower-cased name,
\* per-unit price rounded to 2 decimals); every accepted key has its item;
\* and the items of each beginning of the text are a beginning of the list,
\* so an item stays where its key was first seen.
C4_ItemsUnique ==
    pc = "returned" =>
        LET items == result.items
            keys  == [i \in 1..Len(items) |-> ItemKey(items[i])]
        IN  /\ \A i, j \in 1..Len(items) : i # j => keys[i] # keys[j]
            /\ {keys[i] : i \in 1..Len(items)} = AcceptedKeys(text)
            /\ \A k \in 0..(Len(text) - 1) :
                   IsPrefix(extract_items(SubSeq(text, 1, k)).val, items)

\* two different lines carry the same key and one item is returned for it
C4_Witness ==
    /\ pc = "returned"
    /\ \E i, j \in 1..Len(text) :
          /\ i < j
          /\ text[i] # text[j]
          /\ AcceptedKeys(<<text[i]>>) \cap AcceptedKeys(<<text[j]>>) # {}
    /\ Len(result.items) = Cardinality(AcceptedKeys(text))

(***************************************************************************)
(* Properties of parse                                                     *)
(***************************************************************************)
\* an absent optional amount counts as 0
Amt(opt) == IF opt = None THEN 0 ELSE opt[1]

\* C3: every returned record has a subtotal; it is the sum of price x qty
\* over the items when there are items, else max(0, total - tax -
\* delivery_fee - platform_fee + discount) with absent fees counted as 0; it
\* is never negative.
C3_Subtotal ==
    pc = "returned" =>
        /\ "subtotal" \in DOMAIN result
        /\ IF result.items # <<>>
           THEN result.subtotal = items_sum(result.items)
           ELSE LET d == result.total - Amt(result.tax) - Amt(result.delivery_fee)
                         - Amt(result.platform_fee) + Amt(result.discount)
                IN  result.subtotal = Frac(IF d > 0 THEN d ELSE 0, 1)
        /\ result.subtotal.n >= 0

MasalaDosaText ==
    << Line("2x Masala Dosa ", TRUE, "180", ""), Line("1x Filter Coffee ", TRUE, "40", "") >>

\* C7: the text "2x Masala Dosa $180" / "1x Filter Coffee $40" with hint
\* "swiggy" gives merchant "Swiggy", the items (Masala Dosa, 2, 90.0) and
\* (Filter Coffee, 1, 40.0) in this order, and subtotal 220.0.
C7_MasalaDosaScenario ==
    pc = "returned" /\ text = MasalaDosaText /\ hint = "swiggy" =>
        /\ result.merchant = "Swiggy"
        /\ result.items = << [name |-> "Masala Dosa", qty |-> 2, price |-> Frac(90000, 1)],
                             [name |-> "Filter Coffee", qty |-> 1, price |-> Frac(40000, 1)] >>
        /\ result.subtotal = Frac(220000, 1)

GrandTotalLines ==
    { Line("Grand Total: ", TRUE, "450.00", ""),
      Line("Delivery Fee: ", TRUE, "40", ""),
      Line("Platform Fee: ", TRUE, "10", "") }

\* C8: a text made of the lines "Grand Total: $450.00", "Delivery Fee: $40"
\* and "Platform Fee: $10", in any order, gives total 450.0, delivery_fee
\* 40.0, platform_fee 10.0, no items and subtotal 400.0.
C8_GrandTotalScenario ==
    pc = "returned" /\ Len(text) = 3 /\ {text[i] : i \in 1..Len(text)} = GrandTotalLines =>
        /\ result.total = 450000
        /\ result.delivery_fee = Some(40000)
        /\ result.platform_fee = Some(10000)
        /\ result.items = <<>>
        /\ result.subtotal = Frac(400000, 1)

\* the scenario in the order it is printed, parsed
C8_Witness ==
    /\ pc = "returned"
    /\ text = << Line("Grand Total: ", TRUE, "450.00", ""),
                 Line("Delivery Fee: ", TRUE, "40", ""),
                 Line("Platform Fee: ", TRUE, "10", "") >>
    /\ result.total = 450000
    /\ result.subtotal = Frac(400000, 1)

\* the line's amount token parses as a number
parsable_line(l) == float_of_capture[amount_group(l.num)].exc = ""

\* C9: parse never leaves with an exception, and a token that fails to parse
\* only drops its own candidate: total, items, tax, fees and discount are
\* what the text without the lines of such tokens gives.
C9_NeverRaises ==
    /\ pc # "raised"
    /\ pc = "returned" /\ ~not_text(text) =>
          LET rest == SelectSeq(text, parsable_line)
          IN  /\ result.total = extract_amount(rest).val
              /\ result.items = extract_items(rest).val
              /\ result.tax = extract_tax(rest).val
              /\ result.delivery_fee = extract_delivery_fee(rest).val
              /\ result.platform_fee = extract_platform_fee(rest).val
              /\ result.discount = extract_discount(rest).val

\* a total rule, an item pattern and a fee pattern each captured a token of
\* commas only, and a total was still found
C9_Witness ==
    /\ pc = "returned"
    /\ \E i, j \in 1..Len(text) :
          /\ ~parsable_line(text[i])
          /\ amount_on_line[text[i]][Len(patterns)] # ""
          /\ items_on_line[text[i]] # <<>>
          /\ \E k \in 1..Len(item_patterns) : items_on_line[text[i]][k] # <<>>
          /\ ~parsable_line(text[j])
          /\ delivery_on_line[text[j]].captures[1] # ""
    /\ result.total > 0

ParsedReceiptFields ==
    {"merchant", "currency", "subtotal", "total", "items", "date", "time",
     "tax", "delivery_fee", "platform_fee", "discount"}

\* C10: every returned record, the one of the empty text included, holds all
\* the fields of a parsed receipt.
C10_FullRecord == pc = "returned" => ParsedReceiptFields \subseteq DOMAIN result

(***************************************************************************)
(* Properties of suggest_split                                             *)
(***************************************************************************)
RECURSIVE SumOver(_, _)
SumOver(f, S) ==
    IF S = {} THEN 0
    ELSE LET x == CHOOSE x \in S : TRUE IN f[x] + SumOver(f, S \ {x})


\* C2: for a total T > 0, a non-empty member list of length N and no items
\* the suggestion is of type "equal" with amount_per_person = round(T/N, 2);
\* every member but the last is assigned amount_per_person, the last the
\* remainder T - (N-1) * amount_per_person, and the assigned amounts sum to T,
\* both to 0.01 precision.
C2_EqualSplit ==
    pc = "returned" /\ total_arg > 0 /\ member_ids # <<>> /\ items_arg = <<>> =>
        LET N == Len(member_ids)
            s == split[1]
            amount_per_person == round2(total_arg, N)
        IN  /\ split # None
            /\ s.type = "equal"
            /\ s.amount_per_person = amount_per_person
            /\ \A i \in 1..(N - 1) : s.splits[member_ids[i]] = amount_per_person
            /\ Abs(s.splits[member_ids[N]] - (total_arg - (N - 1) * amount_per_person)) < 10
            /\ Abs(SumOver(s.splits, DOMAIN s.splits) - total_arg) < 10

\* C6: no suggestion is returned exactly when the member list is empty or
\* the total is not positive, whatever the items are.
C6_NoSuggestion ==
    pc = "returned" => (split = None <=> (member_ids = <<>> \/ total_arg <= 0))

\* members and items are given, the total is not positive, nothing is suggested
C6_Witness ==
    /\ pc = "returned"
    /\ split = None
    /\ member_ids # <<>>
    /\ items_arg # <<>>
    /\ total_arg <= 0

(***************************************************************************)
(* Properties of the merchant and of the defaults                          *)
(***************************************************************************)
\* a text none of whose lines holds anything the parser looks for: no printed
\* amount, no date, no time, no known merchant, and no line that could serve
\* as a merchant name
NoUsableData(t) ==
    \A i \in 1..Len(t) :
        /\ t[i].num = ""
        /\ date_on_line[t[i]].numeric = <<>> /\ date_on_line[t[i]].textual = <<>>
        /\ time_on_line[t[i]][FALSE] = <<>> /\ time_on_line[t[i]][TRUE] = <<>>
        /\ merchants_on_line[t[i]] = {}
        /\ stripped_line[t[i]] = "" \/ Len(stripped_line[t[i]]) >= MAX_MERCHANT_LEN

\* the field f of the record r is absent
Absent(r, f) == f \notin DOMAIN r \/ r[f] = None

\* C11: without a hint, a text that yields no usable data (the empty text
\* included) is parsed to the defaults: merchant "Unknown Merchant", total 0,
\* no items, and date, time, tax, delivery_fee, platform_fee, discount absent
C11_Defaults ==
    (pc = "returned" /\ hint = "" /\ NoUsableData(text)) =>
        /\ result.merchant = "Unknown Merchant"
        /\ result.total = 0
        /\ result.items = <<>>
        /\ \A f \in {"date", "time", "tax", "delivery_fee", "platform_fee", "discount"} :
               Absent(result, f)

\* the lines of t that are not the empty string, in order
NonEmptyLines(t) == SelectSeq(t, LAMBDA l : line_text(l) # "")

\* the merchants the resolution order of the specification allows
ResolvedMerchants(t, h) ==
    LET known == UNION {merchants_on_line[t[i]] : i \in 1..Len(t)}
        lines == NonEmptyLines(t)
    IN  IF h # "" THEN {title(h)}
        ELSE IF known # {} THEN {title(m) : m \in known}
        ELSE IF lines # <<>> /\ Len(line_text(lines[1])) < MAX_MERCHANT_LEN
        THEN {line_text(lines[1])}
        ELSE {"Unknown Merchant"}

\* C12: the merchant of every result is the title-cased hint, else a known
\* merchant occurring in the text, else the first non-empty line when it is
\* shorter than 50 characters, else "Unknown Merchant"; it is never empty
C12_MerchantOrder ==
    pc = "returned" =>
        /\ result.merchant \in ResolvedMerchants(text, hint)
        /\ result.merchant # ""

(***************************************************************************)
(* Properties of the line items                                            *)
(***************************************************************************)
\* C13: every item of every result has qty > 0 and price > 0, also when the
\* quantity prefix of its line is 0
C13_PositiveQtyAndPrice ==
    pc = "returned" =>
        \A i \in 1..Len(result.items) :
            result.items[i].qty > 0 /\ result.items[i].price.n > 0

\* the items one line contributes when nothing has been seen before it
ItemsOfLine(l) ==
    items_of_line(items_on_line[l], 1, [exc |-> "", items |-> <<>>, seen_items |-> {}]).items

\* the patterns that yield an item on the line l
YieldingPatterns(l) ==
    {k \in 1..Len(items_on_line[l]) :
        items_on_line[l][k] # <<>>
        /\ item_step(items_on_line[l][k][1],
                     [exc |-> "", items |-> <<>>, seen_items |-> {}]).items # <<>>}

\* C20: on each surviving line the first pattern shape that yields an item
\* stops the other patterns, so a line contributes at most one item: the one
\* of the first shape that yields one
C20_OneItemPerLine ==
    pc = "returned" =>
        /\ Len(result.items) <= Len(text)
        /\ \A i \in 1..Len(text) :
              LET l  == text[i]
                  ks == YieldingPatterns(l)
              IN  /\ Len(ItemsOfLine(l)) <= 1
                  /\ ks # {} =>
                        LET k == CHOOSE k \in ks : \A j \in ks : k <= j
                        IN  ItemsOfLine(l) =
                              item_step(items_on_line[l][k][1],
                                        [exc |-> "", items |-> <<>>, seen_items |-> {}]).items

(***************************************************************************)
(* Properties of the time                                                  *)
(***************************************************************************)
\* s is "HH:MM" with HH in 00..23 and MM in 00..59
IsClockTime(s) ==
    /\ Len(s) = 5
    /\ \A i \in {1, 2, 4, 5} : IsDigit(Ch(s, i))
    /\ Ch(s, 3) = ":"
    /\ digits_value(SubSeq(s, 1, 2)) <= 23
    /\ digits_value(SubSeq(s, 4, 5)) <= 59

\* C14: a time that parse returns is a 24-hour "HH:MM" string with the hour
\* in 00..23 and the minute in 00..59
C14_ClockTime ==
    (pc = "returned" /\ "time" \in DOMAIN result /\ result.time # None)
        => IsClockTime(result.time[1])

(***************************************************************************)
(* Properties of the range of the total                                    *)
(***************************************************************************)
\* the matches of the total rules that parse to a value outside [10, 100000]
OutOfRangeMatches(t) ==
    LET ms == amount_matches(t, 1)
    IN  {[amount |-> float_of_capture[ms[i].group1].val, priority |-> ms[i].priority] :
            i \in {i \in 1..Len(ms) :
                      /\ float_of_capture[ms[i].group1].exc = ""
                      /\ ~(/\ MIN_TOTAL * 1000 <= float_of_capture[ms[i].group1].val
                           /\ float_of_capture[ms[i].group1].val <= MAX_TOTAL * 1000)}}

\* C15: the total is 0 or a value in [10, 100000] read with the thousands
\* separators stripped; a match outside the range is never returned, whatever
\* the priority of its rule, and the best in-range match (highest priority,
\* then largest amount) is returned instead; without one the total is 0
C15_TotalInRange ==
    pc = "returned" =>
        LET ms  == InRangeMatches(text)
            out == OutOfRangeMatches(text)
        IN  /\ \/ result.total = 0
               \/ MIN_TOTAL * 1000 <= result.total /\ result.total <= MAX_TOTAL * 1000
            /\ \A m \in out : result.total # m.amount
            /\ ms = {} => result.total = 0
            /\ ms # {} =>
                  /\ \E m \in ms : m.priority = TopPriority(ms) /\ m.amount = result.total
                  /\ \A m \in ms :
                        m.priority = TopPriority(ms)
                            => round2(m.amount, 1) <= round2(result.total, 1)

\* the match of the highest priority is out of range, and the total is the
\* in-range amount of a rule of lower priority
C15_Witness ==
    /\ pc = "returned"
    /\ \E m \in OutOfRangeMatches(text) :
          /\ m.amount > 0
          /\ \A k \in InRangeMatches(text) : k.priority < m.priority
    /\ result.total > 0
    /\ \E k \in InRangeMatches(text) : k.amount = result.total

(***************************************************************************)
(* Properties of the item-based suggestion                                 *)
(***************************************************************************)
\* C17: for a positive total, N >= 1 members and at least one item the
\* suggestion has type "item-based", amount_per_person is total / N rounded
\* to 2 decimals (a hundredth nearest to the quotient), there is no mapping
\* of per-member splits, and the explanation cites the number of items and
\* the number of members
C17_ItemBased ==
    (pc = "returned" /\ total_arg > 0 /\ member_ids # <<>> /\ items_arg # <<>>) =>
        /\ split # None
        /\ LET s == split[1]
               N == Len(member_ids)
           IN  /\ DOMAIN s = {"type", "amount_per_person", "explanation"}
               /\ s.type = "item-based"
               /\ s.amount_per_person % 10 = 0
               /\ 2 * Abs(s.amount_per_person * N - total_arg) <= 10 * N
               /\ Contains(s.explanation, " " \o str(Len(items_arg)) \o " items ")
               /\ Contains(s.explanation, " " \o str(N) \o " people")

\* two items are split among several members and the rounded share times the
\* number of members is not the total
C17_Witness ==
    /\ pc = "returned"
    /\ split # None
    /\ split[1].type = "item-based"
    /\ Len(items_arg) = 2
    /\ Len(member_ids) >= 2
    /\ split[1].amount_per_person * Len(member_ids) # total_arg

(***************************************************************************)
(* Properties of the tax and of the fees                                   *)
(***************************************************************************)
\* the values of the captures caps that parse and lie in ]lo, hi] (open) or
\* in [lo, hi], in thousandths
ValuesInRange(caps, lo, open, hi) ==
    {float_of_capture[caps[i]].val :
        i \in {i \in 1..Len(caps) :
                  /\ float_of_capture[caps[i]].exc = ""
                  /\ IF open THEN float_of_capture[caps[i]].val > lo * 1000
                             ELSE float_of_capture[caps[i]].val >= lo * 1000
                  /\ float_of_capture[caps[i]].val <= hi * 1000}}

\* C18: the tax is the maximum of the labelled tax matches whose value lies
\* in ]0, 5000], whatever their order in the text (a text read backwards that
\* holds the same matches has the same tax), and absent without such a match
C18_TaxIsMaximum ==
    (pc = "returned" /\ "tax" \in DOMAIN result) =>
        LET vals == ValuesInRange(tax_captures(text), 0, TRUE, 5000)
            back == ValuesInRange(tax_captures(Reverse(text)), 0, TRUE, 5000)
        IN  /\ vals = {} => result.tax = None
            /\ vals # {} =>
                  /\ result.tax # None
                  /\ result.tax[1] \in vals
                  /\ \A v \in vals : v <= result.tax[1]
            /\ back = vals => extract_tax(Reverse(text)).val = result.tax

\* a smaller tax is printed before the largest one, which is returned, and a
\* tax above the range is printed too
C18_Witness ==
    /\ pc = "returned"
    /\ "tax" \in DOMAIN result
    /\ result.tax # None
    /\ \E i, j, k \in 1..Len(text) :
          /\ i < j
          /\ ValuesInRange(tax_captures(<<text[i]>>), 0, TRUE, 5000) # {}
          /\ \A v \in ValuesInRange(tax_captures(<<text[i]>>), 0, TRUE, 5000) :
                v < result.tax[1]
          /\ result.tax[1] \in ValuesInRange(tax_captures(<<text[j]>>), 0, TRUE, 5000)
          /\ tax_captures(<<text[k]>>) # <<>>
          /\ ValuesInRange(tax_captures(<<text[k]>>), 0, TRUE, 5000) = {}

\* the in-range values the label patterns 1..n capture, line by line: the
\* mentions of a field in the order they stand in the text
RECURSIVE MentionsInTextOrder(_, _, _, _, _, _)
MentionsInTextOrder(fs, k, n, lo, open, hi) ==
    IF k > Len(fs) THEN <<>>
    ELSE LET vals == ValuesInRange([j \in 1..n |-> fs[k].captures[j]], lo, open, hi)
         IN  (IF vals = {} THEN <<>> ELSE <<CHOOSE v \in vals : TRUE>>)
                 \o MentionsInTextOrder(fs, k + 1, n, lo, open, hi)

\* the first mention, or absent
FirstMention(ms) == IF ms = <<>> THEN None ELSE Some(ms[1])

\* C19: the delivery fee, the platform fee and the discount are each the
\* first labelled mention in the text whose value lies in the field's range
\* (delivery [0, 500], platform [0, 100], discount ]0, 10000]); mentions out
\* of range are passed over, and without a mention in range the field is
\* absent
C19_FirstMention ==
    (pc = "returned" /\ "tax" \in DOMAIN result) =>
        /\ result.delivery_fee =
              FirstMention(MentionsInTextOrder(
                  [i \in 1..Len(text) |-> delivery_on_line[text[i]]], 1,
                  Len(delivery_patterns), 0, FALSE, 500))
        /\ result.platform_fee =
              FirstMention(MentionsInTextOrder(
                  [i \in 1..Len(text) |-> platform_on_line[text[i]]], 1,
                  Len(platform_patterns), 0, FALSE, 100))
        /\ result.discount =
              FirstMention(MentionsInTextOrder(
                  [i \in 1..Len(text) |-> discount_on_line[text[i]]], 1,
                  Len(discount_patterns), 0, TRUE, 10000))

(***************************************************************************)
(* Properties of concurrent calls                                          *)
(***************************************************************************)
\* what the call with arguments a returns when it runs alone: [exc, val]
Alone(a) ==
    {parse_with(a.text, merchant, a.currency) : merchant \in extract_merchant(a.text, a.hint)}

\* C16: under every interleaving of the calls on the shared instance, each
\* call that has left returns the record it returns when run alone on its
\* arguments; no two calls of parse use the same local variables, and the
\* merchant catalog stays as it is
C16_CallsAreIndependent ==
    /\ catalog = KNOWN_MERCHANTS
    /\ \A c \in DOMAIN calls \cap ParseCalls : \A d \in DOMAIN calls \cap ParseCalls :
          c # d => frame_of(c) # frame_of(d)
    /\ \A c \in DOMAIN calls :
          calls[c].outcome # "" =>
              IF c \in ParseCalls
              THEN \E r \in Alone(calls[c].args) :
                      /\ calls[c].result = r.val
                      /\ calls[c].outcome = IF r.exc = "" THEN "returned" ELSE "raised"
              ELSE calls[c].result = suggest_split(calls[c].args.total, calls[c].args.items,
                                                   calls[c].args.ids)

\* one call of parse has returned its record while another, on a different
\* text, is between two of its extractors, and suggest_split has returned
C16_Witness ==
    /\ calls # <<>>
    /\ calls["p1"].outcome = "returned"
    /\ calls["p1"].result.total = 450000
    /\ calls["p2"].outcome = ""
    /\ calls["p2"].at = 6
    /\ calls["p2"].args.text # calls["p1"].args.text
    /\ locals[frame_of("p2")].total.val = 300000
    /\ calls["s1"].outcome = "returned"
    /\ calls["s1"].result # None

(***************************************************************************)
(* Properties of the item prices and names                                 *)
(***************************************************************************)
\* C21: a matched line amount a with quantity q yields an item exactly when
\* 0 < a <= 10000 (10000 itself is accepted); the stored price is a / q, so
\* price * qty is the line amount, and the price never exceeds 10000
C21_PriceRange ==
    pc = "returned" =>
        \A i \in 1..Len(text) : \A k \in 1..Len(items_on_line[text[i]]) :
            LET ms == items_on_line[text[i]][k]
            IN  (ms # <<>> /\ float_of_capture[ms[1].price_str].exc = "") =>
                    LET a == float_of_capture[ms[1].price_str].val
                    IN  (0 < a /\ a <= MAX_ITEM_PRICE * 1000)
                        <=> \E it \in {ItemsOfLine(text[i])[j] : j \in 1..Len(ItemsOfLine(text[i]))} :
                               /\ it.name = ms[1].name
                               /\ it.price.n * it.qty = a * it.price.d
                               /\ it.price.n <= MAX_ITEM_PRICE * 1000 * it.price.d

\* the text t without its i-th line
RemoveAt(t, i) == SubSeq(t, 1, i - 1) \o SubSeq(t, i + 1, Len(t))

\* the line l, stripped, is shorter than 5 characters or holds a summary keyword
SummaryOrShort(l) ==
    \/ Len(line_text(stripped(l))) < 5
    \/ \E keyword \in summary_keywords : Contains(lower(line_text(l)), keyword)

\* the lower-case name holds no summary keyword
KeywordFree(lowered) == \A keyword \in summary_keywords : ~Contains(lowered, keyword)

\* the lines of the vocabulary that are so
SummaryOrShortLines == {l \in LineVocab : SummaryOrShort(l)}

\* C22: no item comes from a line shorter than 5 characters or from a line
\* with a summary keyword (the items are those of the text without that
\* line); every item name is whitespace-collapsed, ends with neither a dash
\* nor a space, has 2 to 50 characters and holds no summary keyword
C22_ItemNames ==
    pc = "returned" =>
        /\ \A i \in 1..Len(text) :
              text[i] \in SummaryOrShortLines =>
                  extract_items(RemoveAt(text, i)).val = result.items
        /\ (\A i \in 1..Len(text) : text[i] \in SummaryOrShortLines) => result.items = <<>>
        /\ \A j \in 1..Len(result.items) :
              LET name == result.items[j].name
              IN  /\ Len(name) >= 2 /\ Len(name) <= 50
                  /\ Ch(name, 1) # " "
                  /\ Ch(name, Len(name)) \notin {"-", " "}
                  /\ \A p \in 1..(Len(name) - 1) : ~(Ch(name, p) = " " /\ Ch(name, p + 1) = " ")
                  /\ KeywordFree(lower(name))

\* a line with a summary keyword that an item pattern matches stands in the
\* text and gives no item, while a name written with two spaces and a
\* trailing dash is returned cleaned
C22_Witness ==
    /\ pc = "returned"
    /\ \E i \in 1..Len(text) :
          /\ text[i] \in SummaryOrShortLines
          /\ \E k \in 1..Len(item_patterns) :
                item_match(item_patterns[k], stripped(text[i])) # <<>>
    /\ \E j \in 1..Len(result.items) : result.items[j].name = "Veg Biryani"

(***************************************************************************)
(* Properties of the date and of the time conversion                       *)
(***************************************************************************)
\* the first line of t with a date of the given kind, 0 when there is none
FirstDateLine(t, kind) ==
    IF \E i \in 1..Len(t) : date_on_line[t[i]][kind] # <<>>
    THEN CHOOSE i \in 1..Len(t) :
             /\ date_on_line[t[i]][kind] # <<>>
             /\ \A j \in 1..(i - 1) : date_on_line[t[j]][kind] = <<>>
    ELSE 0

\* s is "YYYY-MM-DD" for the given day, month and year numbers
IsDateOf(s, day, month, year) ==
    /\ Len(s) = 10
    /\ \A i \in {1, 2, 3, 4, 6, 7, 9, 10} : IsDigit(Ch(s, i))
    /\ Ch(s, 5) = "-" /\ Ch(s, 8) = "-"
    /\ digits_value(SubSeq(s, 1, 4)) = year
    /\ digits_value(SubSeq(s, 6, 7)) = month
    /\ digits_value(SubSeq(s, 9, 10)) = day

\* C23: when the first date-shaped match of the text is numeric
\* (day/month/year with "/" or "-"), the date is "YYYY-MM-DD" with a
\* four-digit year (a two-digit year prefixed with "20") and two-digit month
\* and day; a text without a date match has no date
C23_NumericDate ==
    (pc = "returned" /\ "date" \in DOMAIN result) =>
        LET n == FirstDateLine(text, "numeric")
            x == FirstDateLine(text, "textual")
        IN  /\ (n = 0 /\ x = 0) => result.date = None
            /\ (n > 0 /\ (x = 0 \/ n <= x)) =>
                  LET g == date_on_line[text[n]].numeric
                  IN  /\ result.date # None
                      /\ IsDateOf(result.date[1], digits_value(g[1]), digits_value(g[2]),
                                  IF Len(g[3]) = 2 THEN 2000 + digits_value(g[3])
                                  ELSE digits_value(g[3]))

\* the number of the month with the three-letter name m
MonthNumber(m) ==
    CASE m = "jan" -> 1 [] m = "feb" -> 2 [] m = "mar" -> 3 [] m = "apr" -> 4
      [] m = "may" -> 5 [] m = "jun" -> 6 [] m = "jul" -> 7 [] m = "aug" -> 8
      [] m = "sep" -> 9 [] m = "oct" -> 10 [] m = "nov" -> 11 [] m = "dec" -> 12

\* C24: when the only date of the text is written with a month's name
\* ("15 Dec 2024"), the date is the corresponding "YYYY-MM-DD", not absent
C24_TextualDate ==
    (pc = "returned" /\ "date" \in DOMAIN result) =>
        LET n == FirstDateLine(text, "numeric")
            x == FirstDateLine(text, "textual")
        IN  (n = 0 /\ x > 0) =>
                LET g == date_on_line[text[x]].textual
                IN  /\ result.date # None
                    /\ IsDateOf(result.date[1], digits_value(g[1]), MonthNumber(lower(g[2])),
                                IF Len(g[3]) = 2 THEN 2000 + digits_value(g[3])
                                ELSE digits_value(g[3]))

\* the hour of the 12-hour clock h with the suffix ap on the 24-hour clock
HourOf(h, ap) ==
    IF ap = "am" THEN (IF h = 12 THEN 0 ELSE h)
    ELSE IF ap = "pm" THEN (IF h = 12 THEN 12 ELSE h + 12)
    ELSE h

\* C25: the time is taken from the first "HH:MM" match of the text; an AM/PM
\* suffix after it is converted (12 AM is hour 0, 12 PM stays 12, another PM
\* hour h becomes h + 12, another AM hour stays), without a suffix the hour
\* stays; the hour is written with two digits, and a text without a match
\* has no time
C25_TimeConversion ==
    (pc = "returned" /\ "time" \in DOMAIN result) =>
        LET k == IF \E i \in 1..Len(text) : time_on_line[text[i]][FALSE] # <<>>
                 THEN CHOOSE i \in 1..Len(text) :
                          /\ time_on_line[text[i]][FALSE] # <<>>
                          /\ \A j \in 1..(i - 1) : time_on_line[text[j]][FALSE] = <<>>
                 ELSE 0
        IN  IF k = 0 THEN result.time = None
            ELSE LET g == time_on_line[text[k]][FALSE]
                     h == HourOf(digits_value(g[1]), g[3])
                 IN  /\ result.time # None
                     /\ Len(result.time[1]) = 5
                     /\ digits_value(SubSeq(result.time[1], 1, 2)) = h
                     /\ SubSeq(result.time[1], 3, 5) = ":" \o g[2]

(***************************************************************************)
(* Properties of the equal suggestion                                      *)
(***************************************************************************)
\* C29: in every "equal" suggestion each member's amount, the remainder of
\* the last member included, is non-negative
C29_NonNegativeShares ==
    (pc = "returned" /\ split # None /\ split[1].type = "equal") =>
        \A m \in DOMAIN split[1].splits : split[1].splits[m] >= 0

(***************************************************************************)
(* Properties of /settlement/validate                                      *)
(***************************************************************************)
RECURSIVE SumSeq(_)
SumSeq(s) == IF s = <<>> THEN 0 ELSE s[1] + SumSeq(Tail(s))

Listed(req) == {req.members[k].id : k \in DOMAIN req.members}

\* every payer is listed, every split names a listed member, and the splits
\* of every expense add up to its amount
Balanced(req) ==
    \A k \in DOMAIN req.expenses :
        LET e == req.expenses[k]
        IN  /\ e.paid_by \in Listed(req)
            /\ \A j \in DOMAIN e.splits : e.splits[j][1] \in Listed(req)
            /\ SumSeq([j \in DOMAIN e.splits |-> e.splits[j][2]]) = e.amount

BetweenListed(req, s) == s.from_id \in Listed(req) /\ s.to_id \in Listed(req)

\* what the expenses of req leave member m with: what m paid less what m owes
ExpenseNet(req, m) ==
    SumSeq([k \in DOMAIN req.expenses |->
              LET e == req.expenses[k]
              IN  (IF e.paid_by = m THEN e.amount ELSE 0)
                  - SumSeq([j \in DOMAIN e.splits |->
                              IF e.splits[j][1] = m THEN e.splits[j][2] ELSE 0])])

\* what the settlements between listed members of req leave member m with
SettlementNet(req, m) ==
    SumSeq([k \in DOMAIN req.settlements |->
              LET s == req.settlements[k]
              IN  IF BetweenListed(req, s)
                  THEN (IF s.from_id = m THEN s.amount ELSE 0)
                       - (IF s.to_id = m THEN s.amount ELSE 0)
                  ELSE 0])

IsSettlementLine(l) == l.kind \in {"settlement", "settlement warning"}
IsNoSettlementWarning(l) == l.kind # "settlement warning"

\* req without its settlements that name an unlisted member
WithoutUnlisted(req) ==
    LET Keep(s) == BetweenListed(req, s)
    IN  [req EXCEPT !.settlements = SelectSeq(req.settlements, Keep)]

\* C26: when every payer is listed and every expense's splits name listed
\* members and add up to its amount, validate returns balances that sum to
\* zero with status "ok", whatever the settlements: each settlement between
\* listed members adds its amount to the sender and takes it from the receiver,
\* and one naming an unlisted member changes no balance and adds one warning
\* to the audit and nothing else
C26_BalancedSettlements ==
    (pc # "ready" /\ Balanced(request)) =>
        /\ response[1].exc = ""
        /\ LET v == response[1].val
               w == validate(WithoutUnlisted(request)).val
           IN  /\ SumOver(v.balances, DOMAIN v.balances) = 0
               /\ v.status = "ok"
               /\ DOMAIN v.balances = Listed(request)
               /\ \A m \in Listed(request) :
                      v.balances[m] = ExpenseNet(request, m) + SettlementNet(request, m)
               /\ v.balances = w.balances
               /\ SelectSeq(v.audit, IsNoSettlementWarning) = w.audit
               /\ SelectSeq(v.audit, IsSettlementLine) =
                      [k \in DOMAIN request.settlements |->
                          LET s == request.settlements[k]
                          IN  IF BetweenListed(request, s)
                              THEN [kind |-> "settlement", who |-> s.id, amount |-> s.amount]
                              ELSE [kind |-> "settlement warning", who |-> s.id, amount |-> 0]]

\* a balanced request with an expense, a settlement between two different
\* listed members and one that names an unlisted member has been answered
C26_Witness ==
    /\ pc = "returned"
    /\ Balanced(request)
    /\ Len(request.expenses) >= 1
    /\ \E k \in DOMAIN request.settlements :
          /\ BetweenListed(request, request.settlements[k])
          /\ request.settlements[k].from_id # request.settlements[k].to_id
    /\ \E k \in DOMAIN request.settlements : ~BetweenListed(request, request.settlements[k])
    /\ response[1].val.status = "ok"

\* C30: for any members, expenses and settlements, also with payers or split
\* members that are not listed, the endpoint and the script both complete and
\* compute the same balances
C30_SameBalances ==
    (pc # "ready" /\ result # NoResult) =>
        /\ response[1].exc = ""
        /\ response[1].val.balances = result

(***************************************************************************)
(* Properties of the sync store                                            *)
(***************************************************************************)
\* the payload of the last push for user u among the requests h, the empty
\* payload when there is none
RECURSIVE LastPush(_, _)
LastPush(h, u) ==
    IF h = <<>> THEN EmptyPayload
    ELSE LET r == h[Len(h)]
         IN  IF r.op = "push" /\ r.user_id = u THEN r.payload
             ELSE LastPush(SubSeq(h, 1, Len(h) - 1), u)

\* a pull of any user would now return ok with the payload of that user's
\* most recent push, and the last request, if a pull, was answered so
PullsReturnLastPush ==
    /\ \A u \in UserIds :
          pull(storage, u) = [ok |-> TRUE, user_id |-> u, payload |-> LastPush(received, u)]
    /\ (received # <<>> /\ received[Len(received)].op = "pull") =>
          LET u == received[Len(received)].user_id
          IN  response[1] = [ok |-> TRUE, user_id |-> u, payload |-> LastPush(received, u)]

\* a request leaves what pull returns for every user other than a pushed one,
\* and a pull leaves the store
OthersKeepTheirs ==
    \A u \in UserIds :
        received' # received =>
            LET r == received'[Len(received')]
            IN  /\ ~(r.op = "push" /\ r.user_id = u) => pull(storage', u) = pull(storage, u)
                /\ r.op = "pull" => storage' = storage

\* C27: after any sequence of pushes and pulls, pull(u) returns ok with the
\* payload of the most recent push for u, or the empty payload if u was never
\* pushed; a push for one user does not change what pull returns for another,
\* and a pull does not modify the store
C27_SyncStore == []PullsReturnLastPush /\ [][OthersKeepTheirs]_vars

\* u1 was pushed twice with different payloads, u2 once, and the pull of u1
\* that followed returned u1's second payload
C27_Witness ==
    /\ Len(received) = 4
    /\ received[1].op = "push" /\ received[1].user_id = "u1"
    /\ received[2].op = "push" /\ received[2].user_id = "u1"
    /\ received[2].payload # received[1].payload
    /\ received[3].op = "push" /\ received[3].user_id = "u2"
    /\ received[3].payload # received[2].payload
    /\ received[4].op = "pull" /\ received[4].user_id = "u1"
    /\ response[1].payload = received[2].payload

(***************************************************************************)
(* Properties of /ocr/parse-with-split                                     *)
(***************************************************************************)
\* s without its leading and trailing spaces
Trim(s) ==
    LET ns == {i \in 1..Len(s) : Ch(s, i) # " "}
    IN  IF ns = {} THEN ""
        ELSE SubSeq(s, CHOOSE i \in ns : \A j \in ns : i <= j,
                       CHOOSE i \in ns : \A j \in ns : j <= i)

\* the trimmed entries between the cuts of s (its commas and its two ends),
\* blank ones left out, in the order of s
RECURSIVE EntriesBetween(_, _)
EntriesBetween(s, cuts) ==
    IF Cardinality(cuts) < 2 THEN <<>>
    ELSE LET c == CHOOSE i \in cuts : \A j \in cuts : i <= j
             d == CHOOSE i \in cuts \ {c} : \A j \in cuts \ {c} : i <= j
             e == Trim(SubSeq(s, c + 1, d - 1))
         IN  (IF e = "" THEN <<>> ELSE <<e>>) \o EntriesBetween(s, cuts \ {c})

\* the non-blank ids of the member_ids parameter
NonBlankIds(param) ==
    IF param = None THEN <<>>
    ELSE EntriesBetween(param[1], {0, Len(param[1]) + 1}
                                      \cup {i \in 1..Len(param[1]) : Ch(param[1], i) = ","})

\* C28: the response carries a suggested_split exactly when the member_ids
\* parameter has a non-blank id after trimming and the total it reports is
\* above zero, and the suggestion is the one suggest_split gives for the
\* reported total and items and the non-blank ids, trimmed, in their order
C28_SuggestedSplit ==
    pc = "returned" =>
        LET v   == response[1].val
            ids == NonBlankIds(request.member_ids)
        IN  /\ (v.suggested_split # None) <=> (ids # <<>> /\ v.total > 0)
            /\ v.suggested_split # None =>
                  v.suggested_split = split_suggestion(suggest_split(v.total, v.items, ids))

\* three ids around a blank entry got an equal split of a total that does not
\* divide: the last id of the parameter has the remainder
C28_Witness ==
    /\ pc = "returned"
    /\ request.member_ids = Some("c, ,a ,b")
    /\ response[1].val.suggested_split # None
    /\ LET s == response[1].val.suggested_split[1]
       IN  /\ s.type = "equal"
           /\ DOMAIN s.splits[1] = {"a", "b", "c"}
           /\ s.splits[1]["b"] # s.splits[1]["c"]

=============================================================================
